---------------------------- MODULE Spec2Model ----------------------------
(***************************************************************************)
(* A model of the NIfTI viewer of lotus-bf-frontend                         *)
(* (src/src/components/NiiViewer.jsx): the volume slots and their loads,    *)
(* the cursor, the threshold engine, the compositor and the coordinate      *)
(* mapper.                                                                  *)
(*                                                                          *)
(* Numbers.  JavaScript numbers that are not integers are modelled as       *)
(* exact rationals <<num, den>> with den > 0 (voxel spacings, millimetre    *)
(* coordinates).  Voxel values and the Value threshold are integers, the    *)
(* percentile is kept in tenths of a percent (the input's step is 0.5, its  *)
(* max 99.9) and the overlay alpha in twentieths (the slider's step is      *)
(* 0.05).                                                                   *)
(***************************************************************************)
EXTENDS Integers, Sequences, FiniteSets, TLC

\* null: an empty slot, an absent threshold, a timer that is not pending.  A value
\* that may be null is either Null or (for a number) the one-element tuple <<v>>.
Null == <<>>

Axes == {"x", "y", "z"}

\* position of an axis in a dims / voxelMM array
AxisNo(axis) == IF axis = "x" THEN 1 ELSE IF axis = "y" THEN 2 ELSE 3

Min2(a, b) == IF a < b THEN a ELSE b
Max2(a, b) == IF a > b THEN a ELSE b
Abs(a) == IF a < 0 THEN -a ELSE a

\* Math.floor, Math.ceil and Math.round (ties towards +Infinity) of num/den, den > 0
Floor(num, den) == num \div den
Ceil(num, den) == -((-num) \div den)
Round(num, den) == (2 * num + den) \div (2 * den)

----------------------------------------------------------------------------
(* Bounds of the model and constants of the program *)

\* generic grids of the coordinate-mapper check have 1..MaxDim voxels per axis
MaxDim == 3
\* overlay loads started in one behaviour of the viewer
MaxLoads == 2
\* resize notifications whose redraw frame is still pending
MaxResizeFrames == 1
\* inputs of the user (slider, click, text, controls) in one behaviour
MaxInputs == 2

MNI_NX == 91
MNI_NY == 109
MNI_NZ == 91
PctlSampleCap == 200000
PctlDefault == 950
AlphaSteps == 20
AlphaDefault == 10
OverlayR == 255
OverlayG == 0
OverlayB == 0

----------------------------------------------------------------------------
(* CoordinateMapper: isStandardMNI2mm, MNI2MM, AXIS_SIGN, idx2coord,        *)
(* coord2idx                                                                *)

\* |v - 2| < 1e-3 for the rational v
NearTwo(v) == 1000 * Abs(v[1] - 2 * v[2]) < v[2]

isStandardMNI2mm_DimsOnly(dims, voxelMM) ==
    dims[1] = MNI_NX /\ dims[2] = MNI_NY /\ dims[3] = MNI_NZ

isStandardMNI2mm(dims, voxelMM) ==
    /\ dims[1] = MNI_NX /\ dims[2] = MNI_NY /\ dims[3] = MNI_NZ
    /\ NearTwo(voxelMM[1]) /\ NearTwo(voxelMM[2]) /\ NearTwo(voxelMM[3])

MNI2MM == [x0 |-> 90, y0 |-> -126, z0 |-> -72, vx |-> 2, vy |-> 2, vz |-> 2]

AXIS_SIGN == [x |-> -1, y |-> 1, z |-> 1]

clamp(v, lo, hi) == Max2(lo, Min2(hi, v))

\* index -> millimetres, a rational <<num, den>>
idx2coord_Uncentred(i, n, axis, dims, voxelMM) ==
    IF isStandardMNI2mm(dims, voxelMM)
    THEN IF axis = "x" THEN <<-MNI2MM.vx * i + MNI2MM.x0, 1>>
         ELSE IF axis = "y" THEN <<MNI2MM.vy * i + MNI2MM.y0, 1>>
         ELSE <<MNI2MM.vz * i + MNI2MM.z0, 1>>
    ELSE LET mm == voxelMM[AxisNo(axis)]
         IN  <<AXIS_SIGN[axis] * (i - Floor(n - 1, 2)) * mm[1], mm[2]>>

idx2coord(i, n, axis, dims, voxelMM) ==
    IF isStandardMNI2mm(dims, voxelMM)
    THEN IF axis = "x" THEN <<-MNI2MM.vx * i + MNI2MM.x0, 1>>
         ELSE IF axis = "y" THEN <<MNI2MM.vy * i + MNI2MM.y0, 1>>
         ELSE <<MNI2MM.vz * i + MNI2MM.z0, 1>>
    ELSE LET mm == voxelMM[AxisNo(axis)]
         IN  <<AXIS_SIGN[axis] * (i - Floor(n, 2)) * mm[1], mm[2]>>

\* millimetres (a rational) -> index, rounded and clamped to [0, n-1]
coord2idx(c_mm, n, axis, dims, voxelMM) ==
    IF isStandardMNI2mm(dims, voxelMM)
    THEN LET v == IF axis = "x" THEN <<MNI2MM.x0 * c_mm[2] - c_mm[1], MNI2MM.vx * c_mm[2]>>
                  ELSE IF axis = "y" THEN <<c_mm[1] - MNI2MM.y0 * c_mm[2], MNI2MM.vy * c_mm[2]>>
                  ELSE <<c_mm[1] - MNI2MM.z0 * c_mm[2], MNI2MM.vz * c_mm[2]>>
             idx == Round(v[1], v[2])
         IN  Max2(0, Min2(n - 1, idx))
    ELSE LET mm == voxelMM[AxisNo(axis)]
             sign == AXIS_SIGN[axis]
             \* sign * (c_mm / mmPerVoxel) + Math.floor(n/2)
             num == sign * c_mm[1] * mm[2] + Floor(n, 2) * c_mm[2] * mm[1]
             den == c_mm[2] * mm[1]
             idx == Round(num, den)
         IN  Max2(0, Min2(n - 1, idx))

----------------------------------------------------------------------------
(* ThresholdEngine: minmax, percentile, the body of the mapThreshold memo   *)

RECURSIVE SeqMin(_), SeqMax(_)
SeqMin(s) == IF Len(s) = 1 THEN s[1] ELSE Min2(s[1], SeqMin(Tail(s)))
SeqMax(s) == IF Len(s) = 1 THEN s[1] ELSE Max2(s[1], SeqMax(Tail(s)))

minmax(arr) == <<SeqMin(arr), SeqMax(arr)>>

RECURSIVE InsertAsc(_, _)
InsertAsc(v, s) ==
    IF s = <<>> THEN <<v>>
    ELSE IF v <= s[1] THEN <<v>> \o s
    ELSE <<s[1]>> \o InsertAsc(v, Tail(s))

\* samp.sort((a,b)=>a-b)
RECURSIVE SortAsc(_)
SortAsc(s) == IF s = <<>> THEN <<>> ELSE InsertAsc(s[1], SortAsc(Tail(s)))

\* for (let i=0; i<arr.length; i+=step) samp.push(arr[i])
Sample(arr, step) == [j \in 1..Ceil(Len(arr), step) |-> arr[(j - 1) * step + 1]]

\* percentile(arr, p) with the default step; p in tenths of a percent
percentile(arr, p) ==
    IF Len(arr) = 0 THEN 0
    ELSE LET step == Ceil(Len(arr), PctlSampleCap)
             samp == SortAsc(Sample(arr, step))
             k == Floor(p * (Len(samp) - 1), 1000)
         IN  samp[Max2(0, Min2(Len(samp) - 1, k)) + 1]

\* the function the mapThreshold memo evaluates: Number(pctl) || 95 makes 0 a 95
ComputeThreshold(mv, mode, value, p) ==
    IF mv = Null THEN Null
    ELSE IF mode = "value" THEN <<value>>
    ELSE <<percentile(mv.data, Max2(0, Min2(1000, IF p = 0 THEN PctlDefault ELSE p)))>>

----------------------------------------------------------------------------
(* Compositor: the pixel loop of drawSlice.  A volume is a record           *)
(* [dims, voxelMM, data, min, max] with data a sequence in x-fastest order. *)
(* drawSlice reads dims, mapThreshold, overlayAlpha, posOnly and useAbs     *)
(* from the render it was created in (its closure c) and bgRef.current and  *)
(* mapRef.current when it runs.                                             *)

\* plane size (w, h) of the slice drawn for an axis
PlaneW(axis, dims) == IF axis = "x" THEN dims[2] ELSE dims[1]
PlaneH(axis, dims) == IF axis = "x" THEN dims[3] ELSE IF axis = "y" THEN dims[3] ELSE dims[2]

\* X_RIGHT_ON_SCREEN_RIGHT: flip x when sampling
sx(x, nx) == nx - 1 - x

\* offset into data read by getBG / getMap for in-plane (x, y)
SliceOffset(axis, index, x, y, dims) ==
    IF axis = "z" THEN sx(x, dims[1]) + y * dims[1] + index * dims[1] * dims[2]
    ELSE IF axis = "y" THEN sx(x, dims[1]) + index * dims[1] + y * dims[1] * dims[2]
    ELSE index + x * dims[1] + y * dims[1] * dims[2]

\* bgOK / mapOK: the volume is present and has the dims of the canvas
DimsOK(vol, dims) == vol # Null /\ vol.dims = dims

\* data[off]; the callers' guards keep the index inside the volume
ReadData(vol, off) == vol.data[off + 1]

\* gray level of a background sample
Gray(vbg, bg) ==
    LET range == IF bg.max - bg.min = 0 THEN 1 ELSE bg.max - bg.min
        num == vbg - bg.min
    IN  IF num < 0 THEN 0
        ELSE IF num > range THEN 255
        ELSE Floor(num * 255, range)

\* the overlay gate of one sample
OverlayPass_Strict(raw, thr, useAbs, posOnly) ==
    LET mv == IF useAbs THEN Abs(raw) ELSE raw
        pass == IF thr = Null THEN mv > 0 ELSE mv > thr[1]
    IN  IF posOnly /\ raw <= 0 THEN FALSE ELSE pass

OverlayPass(raw, thr, useAbs, posOnly) ==
    LET mv == IF useAbs THEN Abs(raw) ELSE raw
        pass == IF thr = Null THEN mv > 0 ELSE mv >= thr[1]
    IN  IF posOnly /\ raw <= 0 THEN FALSE ELSE pass

\* ((1 - alpha) * old + alpha * C) | 0 with alpha = a / AlphaSteps
Blend(old, a, C) == Floor((AlphaSteps - a) * old + a * C, AlphaSteps)

\* the RGBA value drawSlice writes for screen pixel (xx, yy)
Pixel_Unmirrored(axis, index, xx, yy, c, bg, map) ==
    LET w == PlaneW(axis, c.dims)
        h == PlaneH(axis, c.dims)
        srcY == h - 1 - yy
        off == IF axis = "x" THEN SliceOffset(axis, index, xx, srcY, c.dims)
               ELSE SliceOffset(axis, index, c.dims[1] - 1 - xx, srcY, c.dims)
        gray == IF DimsOK(bg, c.dims) THEN Gray(ReadData(bg, off), bg) ELSE 0
        alpha == Max2(0, Min2(AlphaSteps, c.overlayAlpha))
        pass == DimsOK(map, c.dims)
                  /\ OverlayPass(ReadData(map, off), c.thr, c.useAbs, c.posOnly)
    IN  IF pass
        THEN <<Blend(gray, alpha, OverlayR), Blend(gray, alpha, OverlayG),
               Blend(gray, alpha, OverlayB), 255>>
        ELSE <<gray, gray, gray, 255>>

Pixel(axis, index, xx, yy, c, bg, map) ==
    LET w == PlaneW(axis, c.dims)
        h == PlaneH(axis, c.dims)
        srcY == h - 1 - yy
        off == SliceOffset(axis, index, xx, srcY, c.dims)
        gray == IF DimsOK(bg, c.dims) THEN Gray(ReadData(bg, off), bg) ELSE 0
        alpha == Max2(0, Min2(AlphaSteps, c.overlayAlpha))
        pass == DimsOK(map, c.dims)
                  /\ OverlayPass(ReadData(map, off), c.thr, c.useAbs, c.posOnly)
    IN  IF pass
        THEN <<Blend(gray, alpha, OverlayR), Blend(gray, alpha, OverlayG),
               Blend(gray, alpha, OverlayB), 255>>
        ELSE <<gray, gray, gray, 255>>

\* the image buffer drawSlice composes: pixel (xx, yy) is element yy * w + xx + 1
drawSlice(axis, index, c, bg, map) ==
    LET w == PlaneW(axis, c.dims)
        h == PlaneH(axis, c.dims)
    IN  [p \in 1..(w * h) |-> Pixel(axis, index, (p - 1) % w, (p - 1) \div w, c, bg, map)]

\* the screen pixel (cx, screenY) at which drawSlice draws the crosshair lines, for
\* a container of clientWidth availW and clientHeight clientH
Crosshair(axis, c, availW, clientH) ==
    LET w == PlaneW(axis, c.dims)
        h == PlaneH(axis, c.dims)
        availH == IF clientH <= 0 THEN Max2(1, Round(availW * h, w)) ELSE clientH
        byWidth == availW * h <= availH * w
        drawW == Max2(1, IF byWidth THEN availW ELSE Round(w * availH, h))
        drawH == Max2(1, IF byWidth THEN Round(h * availW, w) ELSE availH)
        offsetX == Floor(availW - drawW, 2)
        offsetY == Floor(availH - drawH, 2)
        \* in-plane position of the cursor, x mirrored
        u == IF axis = "x" THEN Max2(0, Min2(w - 1, c.iy))
             ELSE Max2(0, Min2(w - 1, w - 1 - c.ix))
        v == IF axis = "z" THEN Max2(0, Min2(h - 1, c.iy))
             ELSE Max2(0, Min2(h - 1, c.iz))
        \* Math.round(offset + i * scaleX) with scaleX = drawW / w
        cxs == Round(offsetX * w + u * drawW, w)
        cys == Round(offsetY * h + v * drawH, h)
        screenY == offsetY + (drawH - 1 - (cys - offsetY))
    IN  <<cxs, screenY>>

----------------------------------------------------------------------------
(* The byte source.  loadNifti(url) resolves to a volume                    *)
(* { data, dims, voxelMM, min, max } or throws.  The files the model's      *)
(* byte source can serve: the background template and two overlays, one on  *)
(* the background's grid and one on another grid.  id is the identity of    *)
(* the object a load returned (0 for the background, the number of the      *)
(* load for an overlay).                                                    *)

NiftiFiles ==
    [bg      |-> [dims |-> <<2, 2, 1>>, voxelMM |-> <<<<2, 1>>, <<2, 1>>, <<2, 1>>>>,
                  data |-> <<0, 10, 20, 30>>],
     mapSame |-> [dims |-> <<2, 2, 1>>, voxelMM |-> <<<<2, 1>>, <<2, 1>>, <<2, 1>>>>,
                  data |-> <<-4, 0, 3, 7>>],
     mapWide |-> [dims |-> <<3, 1, 1>>, voxelMM |-> <<<<3, 1>>, <<3, 1>>, <<3, 1>>>>,
                  data |-> <<0, 5, 9>>],
     \* an overlay on the atlas grid; of its 902629 voxels data keeps a sample,
     \* enough for min, max and the percentile; no step that draws it is taken
     mapAtlas |-> [dims |-> <<MNI_NX, MNI_NY, MNI_NZ>>,
                   voxelMM |-> <<<<2, 1>>, <<2, 1>>, <<2, 1>>>>,
                   data |-> <<0, 2, 6>>]]

OverlayFiles == {"mapSame", "mapWide"}

\* the overlays of the runs that follow the transform variant
AtlasOverlayFiles == {"mapAtlas", "mapSame"}

loadNifti(file, id) ==
    LET f == NiftiFiles[file]
        mm == minmax(f.data)
    IN  [id |-> id, dims |-> f.dims, voxelMM |-> f.voxelMM, data |-> f.data,
         min |-> mm[1], max |-> mm[2]]

\* the overlay URLs a query and its parameters can produce; "" when there is no query
Queries == {"", "q1"}
FwhmDefault == 10
FwhmInputs == {8, 10}

\* the mapUrl memo: '' without a query, else the request with its parameters
MapUrlOf(q, f) ==
    IF q = "" THEN "" ELSE IF f = FwhmDefault THEN "q1?fwhm=10" ELSE "q1?fwhm=8"

----------------------------------------------------------------------------
(* Text of a coordinate field.  String(number) is the rational in lowest    *)
(* terms <<num, den>>; what a user can type besides a number is '', '-',    *)
(* text that parseFloat does not accept, or a number followed by other      *)
(* characters <<num, den, rest>>.                                           *)

RECURSIVE GCD(_, _)
GCD(a, b) == IF b = 0 THEN a ELSE GCD(b, a % b)

\* String(v) of the rational v
String(v) == LET g == GCD(Abs(v[1]), v[2]) IN <<v[1] \div g, v[2] \div g>>

EmptyText == <<>>
DashText == <<"-">>
JunkText == <<"abc">>

\* parseFloat(t): the number at the start of the text, Null for NaN
parseFloat(t) == IF Len(t) >= 2 THEN <<t[1], t[2]>> ELSE Null

----------------------------------------------------------------------------
(* State of a mounted NiiViewer.  React state is held at its latest value;  *)
(* a handler's setState calls, the render they cause and the effects of     *)
(* that render (to the point where no effect sets state any more) are one   *)
(* step.  What outlives a render is kept: the refs, the loads in flight     *)
(* with their alive flags, the debounce timers, and the callbacks a redraw  *)
(* effect scheduled, each with the values its render closed over.           *)

VARIABLES
    mounted,        \* the component is mounted
    query,          \* the query prop
    fwhm,           \* map-generation parameter
    mapUrl,         \* overlay request derived from query and parameters
    loadingBG, loadingMap, errBG, errMap,
    bgRef, mapRef,  \* bgRef.current, mapRef.current: a volume or Null
    dims,           \* canvas dims
    dimsSrc,        \* identity of the array held in dims: id of its volume, -1 at start
    ix, iy, iz,     \* cursor
    cx, cy, cz,     \* coordinate text buffers
    sliderPos,      \* transient slider positions
    debounceRefs,   \* per axis: Null or <<v>>, the value its pending timer commits
    thrMode, thrValue, pctl, overlayAlpha, posOnly, useAbs,
    mapThreshold,   \* value of the mapThreshold memo
    seenMap,        \* mapRef.current as the last render read it (memo / effect deps)
    bgLoad,         \* the background load in flight: [alive] or Null
    mapLoads,       \* overlay loads in flight: set of [id, alive]
    nLoads,         \* overlay loads started so far
    raf, delayed,   \* redraw effect: next-frame and 250 ms callbacks, a closure or Null
    observer,       \* redraw effect: the connected ResizeObserver's closure or Null
    resizeFrames,   \* frames requested by resize notifications: set of closures
    drawn,          \* the last execution of the three drawSlice calls, or Null
    typedPctl,      \* e.target.value of the last change of the percentile input
    nInputs,        \* user inputs so far (bounded by MaxInputs)
    probe,          \* inputs and results of a function applied on its own, or Null
    \* Studies
    studiesQuery,   \* the query prop of the Studies list
    rows,           \* the studies of the last response, each named by its rank in
                    \* the list's order (year descending, then title)
    loading, err,
    page, studyFavs, showFavOnly,
    fetches,        \* studies requests in flight: set of [id, query, alive]
    nFetches,       \* studies requests started so far
    \* QueryBuilder and the application shell
    history,
    isViewerFocused, isStudiesFocused

vvars == <<mounted, query, fwhm, mapUrl, loadingBG, loadingMap, errBG, errMap,
           bgRef, mapRef,
           dims, dimsSrc, ix, iy, iz, cx, cy, cz, sliderPos, debounceRefs,
           thrMode, thrValue, pctl, overlayAlpha, posOnly, useAbs, mapThreshold,
           seenMap, bgLoad, mapLoads, nLoads, raf, delayed, observer,
           resizeFrames, drawn, typedPctl>>

\* the state of the Studies list
svars == <<studiesQuery, rows, loading, err, page, studyFavs, showFavOnly, fetches,
           nFetches>>

\* the state of the query builder and of the shell's focus buttons
avars == <<history, isViewerFocused, isStudiesFocused>>

pvars == <<svars, avars>>

vars == <<vvars, nInputs, probe, pvars>>

\* the state as one record, for the operators that compute a handler's effect
S == [mounted |-> mounted, query |-> query, fwhm |-> fwhm, mapUrl |-> mapUrl,
      loadingBG |-> loadingBG,
      loadingMap |-> loadingMap, errBG |-> errBG, errMap |-> errMap,
      bgRef |-> bgRef, mapRef |-> mapRef, dims |-> dims, dimsSrc |-> dimsSrc,
      ix |-> ix, iy |-> iy, iz |-> iz, cx |-> cx, cy |-> cy, cz |-> cz,
      sliderPos |-> sliderPos, debounceRefs |-> debounceRefs,
      thrMode |-> thrMode, thrValue |-> thrValue, pctl |-> pctl,
      overlayAlpha |-> overlayAlpha, posOnly |-> posOnly, useAbs |-> useAbs,
      mapThreshold |-> mapThreshold, seenMap |-> seenMap, bgLoad |-> bgLoad,
      mapLoads |-> mapLoads, nLoads |-> nLoads, raf |-> raf, delayed |-> delayed,
      observer |-> observer, resizeFrames |-> resizeFrames, drawn |-> drawn,
      typedPctl |-> typedPctl]

Become(t) ==
    \E r \in {t} :
    /\ mounted' = r.mounted /\ query' = r.query /\ fwhm' = r.fwhm
    /\ mapUrl' = r.mapUrl
    /\ loadingBG' = r.loadingBG /\ loadingMap' = r.loadingMap
    /\ errBG' = r.errBG /\ errMap' = r.errMap
    /\ bgRef' = r.bgRef /\ mapRef' = r.mapRef
    /\ dims' = r.dims /\ dimsSrc' = r.dimsSrc
    /\ ix' = r.ix /\ iy' = r.iy /\ iz' = r.iz
    /\ cx' = r.cx /\ cy' = r.cy /\ cz' = r.cz
    /\ sliderPos' = r.sliderPos /\ debounceRefs' = r.debounceRefs
    /\ thrMode' = r.thrMode /\ thrValue' = r.thrValue /\ pctl' = r.pctl
    /\ overlayAlpha' = r.overlayAlpha /\ posOnly' = r.posOnly /\ useAbs' = r.useAbs
    /\ mapThreshold' = r.mapThreshold /\ seenMap' = r.seenMap
    /\ bgLoad' = r.bgLoad /\ mapLoads' = r.mapLoads /\ nLoads' = r.nLoads
    /\ raf' = r.raf /\ delayed' = r.delayed /\ observer' = r.observer
    /\ resizeFrames' = r.resizeFrames /\ drawn' = r.drawn
    /\ typedPctl' = r.typedPctl

\* getVoxelMM(): bgRef.current?.voxelMM ?? mapRef.current?.voxelMM ?? [1,1,1]
getVoxelMM(bg, map) ==
    IF bg # Null THEN bg.voxelMM
    ELSE IF map # Null THEN map.voxelMM
    ELSE <<<<1, 1>>, <<1, 1>>, <<1, 1>>>>

\* what the drawSlice of a render closes over
Closure(r) ==
    [dims |-> r.dims, ix |-> r.ix, iy |-> r.iy, iz |-> r.iz, thr |-> r.mapThreshold,
     overlayAlpha |-> r.overlayAlpha, posOnly |-> r.posOnly, useAbs |-> r.useAbs]

\* one execution of  if (c0 && iz in range) drawSlice(c0,'z',iz); ...  by a callback
\* with closure c: what it read from its closure and, live, from the refs; cfg is
\* the threshold configuration in force when it ran
Drawing(c, r, why) ==
    [c |-> c, bg |-> r.bgRef, map |-> r.mapRef, why |-> why,
     cfg |-> [thrMode |-> r.thrMode, thrValue |-> r.thrValue, pctl |-> r.pctl]]

----------------------------------------------------------------------------
(* A render and its effects, in the order the component declares them.      *)
(* prev is the render before (its values are what deps are compared with),  *)
(* s the state being rendered.                                              *)

\* render phase: the mapUrl memo, and the mapThreshold memo with deps
\* [thrMode, thrValue, pctl, mapRef.current]
RenderView(prev, s) ==
    [s EXCEPT !.mapUrl = MapUrlOf(s.query, s.fwhm),
              !.seenMap = s.mapRef,
              !.mapThreshold =
                  IF <<s.thrMode, s.thrValue, s.pctl, s.mapRef>>
                       = <<prev.thrMode, prev.thrValue, prev.pctl, s.seenMap>>
                  THEN s.mapThreshold
                  ELSE ComputeThreshold(s.mapRef, s.thrMode, s.thrValue, s.pctl)]

\* effect [ix, iy, iz]: setSliderPos({ x: ix, y: iy, z: iz })
SliderSyncEffect(prev, r) ==
    IF <<r.ix, r.iy, r.iz>> # <<prev.ix, prev.iy, prev.iz>>
    THEN [r EXCEPT !.sliderPos = [x |-> r.ix, y |-> r.iy, z |-> r.iz]]
    ELSE r

\* effect [mapRef.current, dims]: keep thrValue within the map's range
ThrClampEffect(prev, r, e) ==
    IF r.seenMap # prev.seenMap \/ r.dimsSrc # prev.dimsSrc
    THEN LET mn == IF e.mapRef # Null THEN e.mapRef.min ELSE 0
             mx == IF e.mapRef # Null THEN e.mapRef.max ELSE 1
         IN  IF r.thrValue < mn \/ r.thrValue > mx
             THEN [e EXCEPT !.thrValue = Min2(mx, Max2(mn, r.thrValue))]
             ELSE e
    ELSE e

\* effect [mapUrl]: the previous run's cleanup (alive = false), then either clear
\* the slot or start a load
MapLoadEffect(prev, r, e) ==
    IF r.mapUrl # prev.mapUrl
    THEN LET dead == {[l EXCEPT !.alive = FALSE] : l \in e.mapLoads}
         IN  IF r.mapUrl = ""
             THEN [e EXCEPT !.mapLoads = dead, !.mapRef = Null]
             ELSE [e EXCEPT !.mapLoads = dead \cup {[id |-> e.nLoads + 1, alive |-> TRUE]},
                            !.nLoads = e.nLoads + 1,
                            !.loadingMap = TRUE, !.errMap = ""]
    ELSE e

\* effect [ix, iy, iz, dims]: keep the displayed coordinates in sync
CoordSyncEffect(prev, r, e) ==
    IF <<r.ix, r.iy, r.iz, r.dimsSrc>> # <<prev.ix, prev.iy, prev.iz, prev.dimsSrc>>
         /\ r.dims[1] # 0
    THEN LET vm == getVoxelMM(e.bgRef, e.mapRef)
         IN  [e EXCEPT !.cx = String(idx2coord(r.ix, r.dims[1], "x", r.dims, vm)),
                       !.cy = String(idx2coord(r.iy, r.dims[2], "y", r.dims, vm)),
                       !.cz = String(idx2coord(r.iz, r.dims[3], "z", r.dims, vm))]
    ELSE e

RedrawDeps(t) ==
    <<t.dimsSrc, t.ix, t.iy, t.iz, t.overlayAlpha, t.posOnly, t.useAbs, t.thrMode,
      t.pctl, t.thrValue, t.loadingBG, t.loadingMap, t.errBG, t.errMap, t.query>>

\* effect "redraw on state changes": cleanup of the previous run (cancel its frame
\* and its timeout, disconnect its observer), then draw, request a frame, set the
\* 250 ms timeout and connect a new observer
RedrawEffect(prev, r, e) ==
    IF RedrawDeps(r) # RedrawDeps(prev)
    THEN IF r.dims[1] = 0
         THEN [e EXCEPT !.raf = Null, !.delayed = Null, !.observer = Null]
         ELSE [e EXCEPT !.raf = Closure(r), !.delayed = Closure(r),
                        !.observer = Closure(r),
                        !.drawn = Drawing(Closure(r), e, "effect")]
    ELSE e

Effects(prev, r) ==
    LET e1 == SliderSyncEffect(prev, r)
        e2 == ThrClampEffect(prev, r, e1)
        e3 == MapLoadEffect(prev, r, e2)
        e4 == CoordSyncEffect(prev, r, e3)
    IN  RedrawEffect(prev, r, e4)

\* the first render after a handler has left h, and the effects of that render
FirstPass(s, h) == Effects(s, RenderView(s, h))

\* the state the effects can set
EffectState(t) == <<t.sliderPos, t.thrValue, t.loadingMap, t.errMap, t.cx, t.cy, t.cz>>

\* render, run the effects, and render again while an effect has set state
RECURSIVE RenderLoop(_, _)
RenderLoop(prev, s) ==
    LET r == RenderView(prev, s)
        n == Effects(prev, r)
    IN  IF EffectState(n) = EffectState(r) THEN n ELSE RenderLoop(r, n)

\* the React state of the component (refs and scheduled callbacks are not)
ReactState(t) ==
    <<t.query, t.fwhm, t.loadingBG, t.loadingMap, t.errBG, t.errMap, t.dimsSrc, t.ix, t.iy,
      t.iz, t.cx, t.cy, t.cz, t.thrMode, t.thrValue, t.pctl, t.overlayAlpha,
      t.posOnly, t.useAbs>>

\* a handler has run and left h: React renders if it set state to a new value
Handled(h) ==
    \E s \in {S} : \E t \in {h} :
        Become(IF ReactState(t) = ReactState(s) /\ t.sliderPos = s.sliderPos
               THEN t ELSE RenderLoop(s, t))

\* the same for a handler that always passes a fresh object to a setter
HandledFresh(h) == \E s \in {S} : \E t \in {h} : Become(RenderLoop(s, t))

----------------------------------------------------------------------------
(* The state after mount: the first render and its effects have run, the    *)
(* background load is in flight, there is no query yet.                     *)

InitRecord ==
    [mounted |-> TRUE, query |-> "", fwhm |-> FwhmDefault, mapUrl |-> "",
     loadingBG |-> TRUE, loadingMap |-> FALSE, errBG |-> "", errMap |-> "",
     bgRef |-> Null, mapRef |-> Null, dims |-> <<0, 0, 0>>, dimsSrc |-> -1,
     ix |-> 0, iy |-> 0, iz |-> 0, cx |-> <<0, 1>>, cy |-> <<0, 1>>, cz |-> <<0, 1>>,
     sliderPos |-> [x |-> 0, y |-> 0, z |-> 0],
     debounceRefs |-> [x |-> Null, y |-> Null, z |-> Null],
     thrMode |-> "pctl", thrValue |-> 0, pctl |-> PctlDefault,
     overlayAlpha |-> AlphaDefault, posOnly |-> TRUE, useAbs |-> FALSE,
     mapThreshold |-> Null, seenMap |-> Null, bgLoad |-> [alive |-> TRUE],
     mapLoads |-> {}, nLoads |-> 0, raf |-> Null, delayed |-> Null,
     observer |-> Null, resizeFrames |-> {}, drawn |-> Null,
     typedPctl |-> PctlDefault]

\* the viewer is in state t
Is(t) ==
    \E r \in {t} :
    /\ mounted = r.mounted /\ query = r.query /\ fwhm = r.fwhm
    /\ mapUrl = r.mapUrl
    /\ loadingBG = r.loadingBG /\ loadingMap = r.loadingMap
    /\ errBG = r.errBG /\ errMap = r.errMap
    /\ bgRef = r.bgRef /\ mapRef = r.mapRef
    /\ dims = r.dims /\ dimsSrc = r.dimsSrc
    /\ ix = r.ix /\ iy = r.iy /\ iz = r.iz
    /\ cx = r.cx /\ cy = r.cy /\ cz = r.cz
    /\ sliderPos = r.sliderPos /\ debounceRefs = r.debounceRefs
    /\ thrMode = r.thrMode /\ thrValue = r.thrValue /\ pctl = r.pctl
    /\ overlayAlpha = r.overlayAlpha /\ posOnly = r.posOnly /\ useAbs = r.useAbs
    /\ mapThreshold = r.mapThreshold /\ seenMap = r.seenMap
    /\ bgLoad = r.bgLoad /\ mapLoads = r.mapLoads /\ nLoads = r.nLoads
    /\ raf = r.raf /\ delayed = r.delayed /\ observer = r.observer
    /\ resizeFrames = r.resizeFrames /\ drawn = r.drawn
    /\ typedPctl = r.typedPctl

\* the Studies list at mount, with the favourites favs in localStorage
StudiesMounted(favs) ==
    /\ studiesQuery = "" /\ rows = {} /\ loading = FALSE /\ err = ""
    /\ page = 1 /\ studyFavs = favs /\ showFavOnly = FALSE
    /\ fetches = {} /\ nFetches = 0

\* the query builder at mount, with the history stored in localStorage
BuilderMounted(stored) == history = stored

\* the shell at mount
ShellMounted == isViewerFocused = FALSE /\ isStudiesFocused = FALSE

\* the other components at mount, with nothing in localStorage
PanelsInit == StudiesMounted({}) /\ BuilderMounted(<<>>) /\ ShellMounted

InitViewer == Is(InitRecord) /\ PanelsInit

ViewerInit == InitViewer /\ nInputs = 0 /\ probe = Null

\* the cursor at the centre voxel of a volume and the coordinate texts at '0'
Centred(s, vol) ==
    [s EXCEPT !.dims = vol.dims, !.dimsSrc = vol.id,
              !.ix = Floor(vol.dims[1], 2), !.iy = Floor(vol.dims[2], 2),
              !.iz = Floor(vol.dims[3], 2),
              !.cx = <<0, 1>>, !.cy = <<0, 1>>, !.cz = <<0, 1>>]

----------------------------------------------------------------------------
(* Loads *)

\* the parent renders the viewer with another query
ChangeQuery(q) ==
    /\ mounted /\ q # query
    /\ q # "" => nLoads < MaxLoads
    /\ Handled([S EXCEPT !.query = q])

\* the FWHM input: setFwhm(Number(e.target.value) || 0)
SetFwhm(v) ==
    /\ mounted /\ v # fwhm
    /\ query # "" => nLoads < MaxLoads
    /\ Handled([S EXCEPT !.fwhm = v])

\* the background load resolves
BgLoadSucceeds ==
    /\ bgLoad # Null
    /\ IF ~bgLoad.alive
       THEN Become([S EXCEPT !.bgLoad = Null])
       ELSE LET bg == loadNifti("bg", 0)
            IN  Handled([Centred([S EXCEPT !.bgRef = bg], bg)
                           EXCEPT !.loadingBG = FALSE, !.bgLoad = Null])

\* the background load throws
BgLoadFails ==
    /\ bgLoad # Null
    /\ IF ~bgLoad.alive
       THEN Become([S EXCEPT !.bgLoad = Null])
       ELSE Handled([S EXCEPT !.errBG = "error", !.bgRef = Null,
                              !.loadingBG = FALSE, !.bgLoad = Null])

\* the overlay load l resolves with file f
MapLoadSucceeds_NoAliveCheck(l, f) ==
    /\ l \in mapLoads /\ f \in OverlayFiles \cup AtlasOverlayFiles
    /\ LET mv == loadNifti(f, l.id)
           s1 == [S EXCEPT !.mapRef = mv, !.mapLoads = mapLoads \ {l}]
           s2 == IF bgRef = Null THEN Centred(s1, mv) ELSE s1
       IN  Handled([s2 EXCEPT !.loadingMap = FALSE])

\* an overlay load that takes the canvas whether or not a background is held
MapLoadSucceeds_TakesCanvas(l, f) ==
    /\ l \in mapLoads /\ f \in OverlayFiles \cup AtlasOverlayFiles
    /\ IF ~l.alive
       THEN Become([S EXCEPT !.mapLoads = mapLoads \ {l}])
       ELSE LET mv == loadNifti(f, l.id)
                s1 == [S EXCEPT !.mapRef = mv, !.mapLoads = mapLoads \ {l}]
            IN  Handled([Centred(s1, mv) EXCEPT !.loadingMap = FALSE])

\* what the continuation of a live overlay load l leaves when it resolves with
\* file f
MapLoaded(l, f) ==
    LET mv == loadNifti(f, l.id)
        s1 == [S EXCEPT !.mapRef = mv, !.mapLoads = mapLoads \ {l}]
        s2 == IF bgRef = Null THEN Centred(s1, mv) ELSE s1
    IN  [s2 EXCEPT !.loadingMap = FALSE]

MapLoadSucceeds(l, f) ==
    /\ l \in mapLoads /\ f \in OverlayFiles \cup AtlasOverlayFiles
    /\ IF ~l.alive
       THEN Become([S EXCEPT !.mapLoads = mapLoads \ {l}])
       ELSE Handled(MapLoaded(l, f))

\* the overlay load l throws
MapLoadFails_ResetsView(l) ==
    /\ l \in mapLoads
    /\ IF ~l.alive
       THEN Become([S EXCEPT !.mapLoads = mapLoads \ {l}])
       ELSE Handled([S EXCEPT !.errMap = "error", !.mapRef = Null,
                              !.dims = <<0, 0, 0>>, !.dimsSrc = -1,
                              !.ix = 0, !.iy = 0, !.iz = 0,
                              !.loadingMap = FALSE, !.mapLoads = mapLoads \ {l}])

MapLoadFails(l) ==
    /\ l \in mapLoads
    /\ IF ~l.alive
       THEN Become([S EXCEPT !.mapLoads = mapLoads \ {l}])
       ELSE Handled([S EXCEPT !.errMap = "error", !.mapRef = Null,
                              !.loadingMap = FALSE, !.mapLoads = mapLoads \ {l}])

\* an unmount whose cleanup leaves the slider timers running
Unmount_KeepsTimers ==
    /\ mounted
    /\ Become([S EXCEPT !.mounted = FALSE,
                        !.bgLoad = IF bgLoad = Null THEN Null ELSE [alive |-> FALSE],
                        !.mapLoads = {[l EXCEPT !.alive = FALSE] : l \in mapLoads},
                        !.raf = Null, !.delayed = Null, !.observer = Null])

\* the component unmounts: every effect's cleanup runs
Unmount ==
    /\ mounted
    /\ Become([S EXCEPT !.mounted = FALSE,
                        !.debounceRefs = [x |-> Null, y |-> Null, z |-> Null],
                        !.bgLoad = IF bgLoad = Null THEN Null ELSE [alive |-> FALSE],
                        !.mapLoads = {[l EXCEPT !.alive = FALSE] : l \in mapLoads},
                        !.raf = Null, !.delayed = Null, !.observer = Null])

----------------------------------------------------------------------------
(* Cursor: sliders, canvas clicks, coordinate fields.  The views exist      *)
(* only while dims[0] is not 0.                                             *)

\* display areas (rect.width, rect.height) of a canvas, in CSS pixels
ClickAreas == {<<6, 4>>}

AxisDim(axis, d) == d[AxisNo(axis)]

\* a slider that commits on every input event
SliderInput_Commits(axis, v) ==
    /\ mounted /\ dims[1] # 0
    /\ v \in 0..Max2(0, AxisDim(axis, dims) - 1)
    /\ LET s1 == [S EXCEPT !.sliderPos[axis] = v, !.debounceRefs[axis] = <<v>>]
       IN  HandledFresh(IF axis = "x" THEN [s1 EXCEPT !.ix = v]
                        ELSE IF axis = "y" THEN [s1 EXCEPT !.iy = v]
                        ELSE [s1 EXCEPT !.iz = v])

\* a slider's onChange with value v: move the preview, restart the axis's timer
SliderInput(axis, v) ==
    /\ mounted /\ dims[1] # 0
    /\ v \in 0..Max2(0, AxisDim(axis, dims) - 1)
    /\ HandledFresh([S EXCEPT !.sliderPos[axis] = v, !.debounceRefs[axis] = <<v>>])

\* the timer of an axis fires
DebounceFires(axis) ==
    /\ debounceRefs[axis] # Null
    /\ LET v == debounceRefs[axis][1]
           s1 == [S EXCEPT !.debounceRefs[axis] = Null]
       IN  Handled(IF axis = "x" THEN [s1 EXCEPT !.ix = v]
                   ELSE IF axis = "y" THEN [s1 EXCEPT !.iy = v]
                   ELSE [s1 EXCEPT !.iz = v])

\* (p - offset) / (draw / n) is evaluated in doubles.  Its exact value a * n / draw
\* is at least 1 / (2 * draw) away from an integer unless it is one, so the floor
\* of the double differs from the exact floor only when the double falls below an
\* integer quotient.  Within the grids and display areas of this model that
\* happens for 4.5 / (9 / 14) = 6.999999999999999 and 9 / (9 / 14) =
\* 13.999999999999998; the entries are <<a, draw, n>> with a in lowest terms.
DoubleShort == {<<<<9, 2>>, 9, 14>>, <<<<9, 1>>, 9, 14>>}

\* Math.floor(a / (draw / n)) for the rational a >= 0
FloorDivScale(a, draw, n) ==
    Floor(a[1] * n, a[2] * draw) - (IF <<String(a), draw, n>> \in DoubleShort THEN 1 ELSE 0)

\* the click is outside the drawn image area (in the letterbox zones)
InLetterbox_Never(px, py, offsetX, offsetY, drawW, drawH) == FALSE

InLetterbox(px, py, offsetX, offsetY, drawW, drawH) ==
    \/ px[1] < offsetX * px[2] \/ px[1] > (offsetX + drawW) * px[2]
    \/ py[1] < offsetY * py[2] \/ py[1] > (offsetY + drawH) * py[2]

\* the state an accepted click on the plane of an axis sets, from state s
ClickMoves_Recentres(s, axis, xi, imgX, srcY, vm) ==
    LET d == s.dims
    IN  IF axis = "z"
        THEN [s EXCEPT !.ix = xi, !.iy = srcY, !.iz = Floor(d[3], 2),
                       !.cx = String(idx2coord(xi, d[1], "x", d, vm)),
                       !.cy = String(idx2coord(srcY, d[2], "y", d, vm))]
        ELSE IF axis = "y"
        THEN [s EXCEPT !.ix = xi, !.iz = srcY, !.iy = Floor(d[2], 2),
                       !.cx = String(idx2coord(xi, d[1], "x", d, vm)),
                       !.cz = String(idx2coord(srcY, d[3], "z", d, vm))]
        ELSE [s EXCEPT !.iy = imgX, !.iz = srcY, !.ix = Floor(d[1], 2),
                       !.cy = String(idx2coord(imgX, d[2], "y", d, vm)),
                       !.cz = String(idx2coord(srcY, d[3], "z", d, vm))]

ClickMoves(s, axis, xi, imgX, srcY, vm) ==
    LET d == s.dims
    IN  IF axis = "z"
        THEN [s EXCEPT !.ix = xi, !.iy = srcY,
                       !.cx = String(idx2coord(xi, d[1], "x", d, vm)),
                       !.cy = String(idx2coord(srcY, d[2], "y", d, vm))]
        ELSE IF axis = "y"
        THEN [s EXCEPT !.ix = xi, !.iz = srcY,
                       !.cx = String(idx2coord(xi, d[1], "x", d, vm)),
                       !.cz = String(idx2coord(srcY, d[3], "z", d, vm))]
        ELSE [s EXCEPT !.iy = imgX, !.iz = srcY,
                       !.cy = String(idx2coord(imgX, d[2], "y", d, vm)),
                       !.cz = String(idx2coord(srcY, d[3], "z", d, vm))]

\* onCanvasClick on the canvas of a plane; the pointer position px, py (relative to
\* the canvas rect) is a pair of rationals
onCanvasClick(axis, availW, rectH, px, py) ==
    /\ mounted /\ dims[1] # 0
    /\ LET nx == dims[1]
           ny == dims[2]
           nz == dims[3]
           w == PlaneW(axis, dims)
           h == PlaneH(axis, dims)
           availH == IF rectH <= 0 THEN Max2(1, Round(availW * h, w)) ELSE rectH
           \* w * scale and h * scale for scale = min(availW / w, availH / h)
           byWidth == availW * h <= availH * w
           drawW == Max2(1, IF byWidth THEN availW ELSE Round(w * availH, h))
           drawH == Max2(1, IF byWidth THEN Round(h * availW, w) ELSE availH)
           offsetX == Floor(availW - drawW, 2)
           offsetY == Floor(availH - drawH, 2)
           imgX == FloorDivScale(<<px[1] - offsetX * px[2], px[2]>>, drawW, w)
           imgY == FloorDivScale(<<py[1] - offsetY * py[2], py[2]>>, drawH, h)
           srcY == h - 1 - imgY
           xi == nx - 1 - imgX
           vm == getVoxelMM(bgRef, mapRef)
       IN  IF InLetterbox(px, py, offsetX, offsetY, drawW, drawH)
           THEN UNCHANGED vvars
           ELSE Handled(ClickMoves(S, axis, xi, imgX, srcY, vm))

\* what the model's user types into a coordinate field
\* a lone '-', text without a number, -200, 1.5, and 3 followed by other characters
\* '', '-', 'abc', '-200', '1.5' and '3mm'
TypedTexts == {EmptyText, DashText, JunkText, <<-200, 1>>, <<3, 2>>, <<3, 1, "mm">>}

\* onChange of the coordinate field of an axis
CoordInput(axis, t) ==
    /\ mounted /\ dims[1] # 0
    /\ t \in TypedTexts
    /\ Handled(IF axis = "x" THEN [S EXCEPT !.cx = t]
               ELSE IF axis = "y" THEN [S EXCEPT !.cy = t]
               ELSE [S EXCEPT !.cz = t])

\* commitCoord(axis), on blur or Enter
commitCoord(axis) ==
    /\ mounted /\ dims[1] # 0
    /\ LET vStr == IF axis = "x" THEN cx ELSE IF axis = "y" THEN cy ELSE cz
           vm == getVoxelMM(bgRef, mapRef)
           parsed == parseFloat(vStr)
       IN  IF vStr = EmptyText \/ vStr = DashText \/ parsed = Null
           THEN UNCHANGED vvars
           ELSE IF axis = "x"
           THEN Handled([S EXCEPT !.ix = coord2idx(parsed, dims[1], "x", dims, vm)])
           ELSE IF axis = "y"
           THEN Handled([S EXCEPT !.iy = coord2idx(parsed, dims[2], "y", dims, vm)])
           ELSE Handled([S EXCEPT !.iz = coord2idx(parsed, dims[3], "z", dims, vm)])

----------------------------------------------------------------------------
(* Threshold and overlay controls *)

ThrModes == {"value", "pctl"}
\* values typed into the Threshold input
ThrInputs == {-5, 0, 3, 8}
\* values typed into the Percentile input, in tenths of a percent
PctlInputs == {0, 500, 950, 1000}
\* positions of the alpha slider, in twentieths
AlphaInputs == {0, 10, 20}

\* <select> onChange: setThrMode(e.target.value)
SetThrMode(m) ==
    /\ mounted /\ m \in ThrModes /\ m # thrMode
    /\ Handled([S EXCEPT !.thrMode = m])

\* Threshold input onChange: setThrValue(Number(e.target.value)); shown in Value mode
SetThrValue(v) ==
    /\ mounted /\ thrMode = "value" /\ v \in ThrInputs
    /\ Handled([S EXCEPT !.thrValue = v])

\* Percentile input onChange: setPctl(Number(e.target.value) || 95); shown in
\* Percentile mode
SetPctl(t) ==
    /\ mounted /\ thrMode = "pctl" /\ t \in PctlInputs
    /\ Handled([S EXCEPT !.pctl = IF t = 0 THEN PctlDefault ELSE t, !.typedPctl = t])

\* alpha slider onChange: setOverlayAlpha(Number(e.target.value))
SetOverlayAlpha(a) ==
    /\ mounted /\ a \in AlphaInputs /\ a # overlayAlpha
    /\ Handled([S EXCEPT !.overlayAlpha = a])

----------------------------------------------------------------------------
(* Scheduled redraws.  Each runs the drawSlice of the render that scheduled *)
(* it.  The frame a resize notification requests is not kept by anyone, so  *)
(* no cleanup cancels it.                                                   *)

\* requestAnimationFrame callback of the redraw effect
RafFires ==
    /\ raf # Null
    /\ Become([S EXCEPT !.raf = Null, !.drawn = Drawing(raf, S, "raf")])

\* the 250 ms fallback of the redraw effect
DelayedFires ==
    /\ delayed # Null
    /\ Become([S EXCEPT !.delayed = Null, !.drawn = Drawing(delayed, S, "delayed")])

\* the ResizeObserver's callback: requestAnimationFrame(() => draw)
ResizeNotified ==
    /\ observer # Null
    /\ Cardinality(resizeFrames) < MaxResizeFrames
    /\ Become([S EXCEPT !.resizeFrames = resizeFrames \cup {observer}])

\* the frame requested by a resize notification
ResizeFrameFires(c) ==
    /\ c \in resizeFrames
    /\ Become([S EXCEPT !.resizeFrames = resizeFrames \ {c},
                        !.drawn = Drawing(c, S, "resize")])

----------------------------------------------------------------------------
(* The viewer: loads and cursor *)

\* a step of the environment (a load, a timer, a frame) and a step of the user
Env(A) == A /\ UNCHANGED <<nInputs, probe, pvars>>
User(A) == nInputs < MaxInputs /\ A /\ nInputs' = nInputs + 1 /\ UNCHANGED <<probe, pvars>>

\* the largest slider value any grid of NiftiFiles allows
MaxSlider == MaxDim - 1

LoadSteps ==
    \/ \E q \in Queries : Env(ChangeQuery(q))
    \/ \E v \in FwhmInputs : User(SetFwhm(v))
    \/ Env(BgLoadSucceeds)
    \/ Env(BgLoadFails)
    \/ \E l \in mapLoads : \E f \in OverlayFiles : Env(MapLoadSucceeds(l, f))
    \/ \E l \in mapLoads : Env(MapLoadFails(l))
    \/ Env(Unmount)

CursorSteps ==
    \/ \E axis \in Axes : \E v \in 0..MaxSlider : User(SliderInput(axis, v))
    \/ \E axis \in Axes : Env(DebounceFires(axis))
    \/ \E axis \in Axes : \E area \in ClickAreas :
         \E px \in 0..area[1] : \E py \in 0..area[2] :
           User(onCanvasClick(axis, area[1], area[2], <<px, 1>>, <<py, 1>>))
    \/ \E axis \in Axes : \E t \in TypedTexts : User(CoordInput(axis, t))
    \/ \E axis \in Axes : User(commitCoord(axis))

Next == LoadSteps \/ CursorSteps

Spec == ViewerInit /\ [][Next]_vars

\* loads, with the sliders moving the cursor
SliderSteps ==
    \/ \E axis \in Axes : \E v \in 0..MaxSlider : User(SliderInput(axis, v))
    \/ \E axis \in Axes : Env(DebounceFires(axis))

NextLoads == LoadSteps \/ SliderSteps

SpecLoads == ViewerInit /\ [][NextLoads]_vars

\* loads, the threshold and overlay controls, and the scheduled redraws
ControlSteps ==
    \/ \E m \in ThrModes : User(SetThrMode(m))
    \/ \E v \in ThrInputs : User(SetThrValue(v))
    \/ \E t \in PctlInputs : User(SetPctl(t))
    \/ \E a \in AlphaInputs : User(SetOverlayAlpha(a))

RedrawSteps ==
    \/ Env(RafFires)
    \/ Env(DelayedFires)
    \/ Env(ResizeNotified)
    \/ \E c \in resizeFrames : Env(ResizeFrameFires(c))

NextRedraw == LoadSteps \/ ControlSteps \/ RedrawSteps

SpecRedraw == ViewerInit /\ [][NextRedraw]_vars

----------------------------------------------------------------------------
(* The coordinate mapper on its own: a grid, an axis and an index are       *)
(* chosen, idx2coord is applied, then coord2idx to its result.              *)

\* spacings: 2, 2.0005 (within 1e-3 of 2), 2.002 and 1.5 (not), 1 and 3
Spacings == {<<2, 1>>, <<20005, 10000>>, <<2002, 1000>>, <<3, 2>>, <<1, 1>>, <<3, 1>>}

\* the atlas dims with every spacing, and the grids of 1..MaxDim voxels per axis
CoordGrids ==
    {[dims |-> <<MNI_NX, MNI_NY, MNI_NZ>>, voxelMM |-> <<sp, sp, sp>>] : sp \in Spacings}
      \cup {[dims |-> <<n, n, n>>, voxelMM |-> <<sp, sp, sp>>] :
              n \in 1..MaxDim, sp \in Spacings}
      \cup {[dims |-> <<MNI_NX, MNI_NY, MNI_NZ>>,
             voxelMM |-> <<<<2, 1>>, <<2, 1>>, <<2002, 1000>>>>],
            [dims |-> <<MNI_NX, MNI_NY, MNI_NX + 1>>,
             voxelMM |-> <<<<2, 1>>, <<2, 1>>, <<2, 1>>>>]}

InitCoord ==
    /\ InitViewer /\ nInputs = 0
    /\ \E g \in CoordGrids : \E axis \in Axes :
         \E i \in 0..(g.dims[AxisNo(axis)] - 1) :
           probe = [kind |-> "coord", stage |-> "index", grid |-> g, axis |-> axis,
                    n |-> g.dims[AxisNo(axis)], i |-> i, mm |-> Null, back |-> Null]

ToCoord ==
    /\ probe.stage = "index"
    /\ probe' = [probe EXCEPT
                   !.stage = "mm",
                   !.mm = idx2coord(probe.i, probe.n, probe.axis,
                                    probe.grid.dims, probe.grid.voxelMM)]
    /\ UNCHANGED <<vvars, nInputs, pvars>>

ToIndex ==
    /\ probe.stage = "mm"
    /\ probe' = [probe EXCEPT
                   !.stage = "back",
                   !.back = <<coord2idx(probe.mm, probe.n, probe.axis,
                                        probe.grid.dims, probe.grid.voxelMM)>>]
    /\ UNCHANGED <<vvars, nInputs, pvars>>

NextCoord == ToCoord \/ ToIndex

SpecCoord == InitCoord /\ [][NextCoord]_vars

----------------------------------------------------------------------------
(* The compositor on its own.  A gate probe composes the one pixel of a     *)
(* one-voxel overlay under a threshold and a style; a plane probe composes  *)
(* the axial plane through the one non-zero voxel of an overlay on the      *)
(* background's grid, under a Value threshold.                              *)

RawValues == -5..5
GateThresholds == {Null} \cup {<<t>> : t \in -3..5}

ComposeDims == {<<2, 1, 1>>, <<2, 2, 2>>, <<3, 2, 1>>}
VoxelValues == {-1, 2, 5}
ValueThresholds == {-3, 1, 3}

\* number of voxels of a grid
Voxels(d) == d[1] * d[2] * d[3]

\* a volume as loadNifti returns it, from dims and data
Volume(d, data, id) ==
    LET mm == minmax(data)
    IN  [id |-> id, dims |-> d, voxelMM |-> <<<<2, 1>>, <<2, 1>>, <<2, 1>>>>,
         data |-> data, min |-> mm[1], max |-> mm[2]]

\* a background whose voxels all differ, and the overlay with one non-zero voxel
RampVolume(d) == Volume(d, [k \in 1..Voxels(d) |-> 10 * (k - 1)], 0)
OneVoxelVolume(d, x0, y0, z0, v) ==
    Volume(d, [k \in 1..Voxels(d) |->
                 IF k = x0 + y0 * d[1] + z0 * d[1] * d[2] + 1 THEN v ELSE 0], 1)

InitCompose ==
    /\ InitViewer /\ nInputs = 0
    /\ \/ \E raw \in RawValues : \E thr \in GateThresholds :
            \E ua \in BOOLEAN : \E po \in BOOLEAN :
              probe = [kind |-> "gate", done |-> FALSE, raw |-> raw, thr |-> thr,
                       useAbs |-> ua, posOnly |-> po, out |-> Null]
       \/ \E d \in ComposeDims :
            \E x0 \in 0..(d[1] - 1) : \E y0 \in 0..(d[2] - 1) : \E z0 \in 0..(d[3] - 1) :
              \E v \in VoxelValues : \E t \in ValueThresholds :
                probe = [kind |-> "plane", done |-> FALSE, dims |-> d, x0 |-> x0,
                         y0 |-> y0, z0 |-> z0, v |-> v, t |-> t, out |-> Null]

\* drawSlice of the single pixel of a one-voxel overlay, no background
ComposeGate ==
    /\ probe.kind = "gate" /\ ~probe.done
    /\ LET d == <<1, 1, 1>>
           c == [dims |-> d, ix |-> 0, iy |-> 0, iz |-> 0, thr |-> probe.thr,
                 overlayAlpha |-> AlphaDefault, posOnly |-> probe.posOnly,
                 useAbs |-> probe.useAbs]
       IN  probe' = [probe EXCEPT
                       !.done = TRUE,
                       !.out = drawSlice("z", 0, c, Null, Volume(d, <<probe.raw>>, 1))]
    /\ UNCHANGED <<vvars, nInputs, pvars>>

\* drawSlice of the axial plane z0: Value mode, posOnly, not useAbs, alpha 1
ComposePlane ==
    /\ probe.kind = "plane" /\ ~probe.done
    /\ LET map == OneVoxelVolume(probe.dims, probe.x0, probe.y0, probe.z0, probe.v)
           c == [dims |-> probe.dims, ix |-> probe.x0, iy |-> probe.y0, iz |-> probe.z0,
                 thr |-> ComputeThreshold(map, "value", probe.t, PctlDefault),
                 overlayAlpha |-> AlphaSteps, posOnly |-> TRUE, useAbs |-> FALSE]
       IN  probe' = [probe EXCEPT
                       !.done = TRUE,
                       !.out = drawSlice("z", probe.z0, c, RampVolume(probe.dims), map)]
    /\ UNCHANGED <<vvars, nInputs, pvars>>

NextCompose == ComposeGate \/ ComposePlane

SpecCompose == InitCompose /\ [][NextCompose]_vars

----------------------------------------------------------------------------
(* Clicks on their own: the background of some grid is loaded, the cursor   *)
(* is anywhere in it, and the user clicks once on one of the canvases; the  *)
(* click is kept in probe.  Pointer positions are taken at half pixels.     *)

\* grids (dims) and display areas (rect.width, rect.height) of the click check:
\* scale factors 1, 2, 4/3, 9/14 and 27/14 among them, and two pairs of areas of the
\* same aspect ratio
ClickGrids == {<<3, 2, 2>>, <<14, 1, 1>>}
ClickCheckAreas == {<<3, 2>>, <<6, 4>>, <<4, 4>>, <<9, 1>>, <<27, 3>>}

\* the viewer after the background of grid d has loaded and the cursor was moved
\* to (i, j, k)
Loaded(d, i, j, k) ==
    LET bg == RampVolume(d)
        s1 == [Centred([InitRecord EXCEPT !.bgRef = bg], bg)
                 EXCEPT !.loadingBG = FALSE, !.bgLoad = Null]
    IN  RenderLoop(InitRecord, [s1 EXCEPT !.ix = i, !.iy = j, !.iz = k])

InitClick ==
    /\ nInputs = 0 /\ probe = Null /\ PanelsInit
    /\ \E d \in ClickGrids :
         \E i \in 0..(d[1] - 1) : \E j \in 0..(d[2] - 1) : \E k \in 0..(d[3] - 1) :
           Is(Loaded(d, i, j, k))

Click(axis, area, px, py) ==
    /\ probe = Null
    /\ onCanvasClick(axis, area[1], area[2], px, py)
    /\ probe' = [kind |-> "click", axis |-> axis, availW |-> area[1],
                 rectH |-> area[2], px |-> px, py |-> py]
    /\ UNCHANGED <<nInputs, pvars>>

NextClick ==
    \E axis \in Axes : \E area \in ClickCheckAreas :
      \E px2 \in 0..(2 * area[1]) : \E py2 \in 0..(2 * area[2]) :
        Click(axis, area, <<px2, 2>>, <<py2, 2>>)

SpecClick == InitClick /\ [][NextClick]_vars

----------------------------------------------------------------------------
(* The coordinate fields, with the loads and the sliders.  probe keeps the  *)
(* last user input on the cursor: its kind, its axis, its ordinal and, for  *)
(* a commit, the text that was committed.  A field being edited has the     *)
(* focus: its blur, hence its commit, comes before any input on another     *)
(* control.                                                                 *)

CoordText(axis) == IF axis = "x" THEN cx ELSE IF axis = "y" THEN cy ELSE cz

Editing(axis) ==
    IF probe = Null THEN FALSE ELSE probe.kind = "type" /\ probe.axis = axis

NoEdit == IF probe = Null THEN TRUE ELSE probe.kind # "type"

\* the field of an axis has the focus or can take it without a blur elsewhere
Focusable(axis) == IF NoEdit THEN TRUE ELSE Editing(axis)

Logged(kind, axis, A) ==
    /\ nInputs < MaxInputs
    /\ A
    /\ nInputs' = nInputs + 1
    /\ probe' = [kind |-> kind, axis |-> axis, n |-> nInputs', text |-> CoordText(axis)]
    /\ UNCHANGED pvars

TextSteps ==
    \/ \E axis \in Axes : \E t \in TypedTexts :
         Focusable(axis) /\ Logged("type", axis, CoordInput(axis, t))
    \/ \E axis \in Axes :
         Focusable(axis) /\ Logged("commit", axis, commitCoord(axis))
    \/ \E axis \in Axes : \E v \in 0..MaxSlider :
         NoEdit /\ Logged("slide", axis, SliderInput(axis, v))
    \/ \E axis \in Axes : Env(DebounceFires(axis))

NextText == LoadSteps \/ TextSteps

SpecText == ViewerInit /\ [][NextText]_vars

----------------------------------------------------------------------------
(* The transform variant: the loads, with an overlay on the atlas grid, and *)
(* the sliders.                                                             *)

\* the centred atlas transform is in use, as idx2coord and coord2idx decide it
Variant == isStandardMNI2mm(dims, getVoxelMM(bgRef, mapRef))

VariantSteps ==
    \/ \E q \in Queries : Env(ChangeQuery(q))
    \/ Env(BgLoadSucceeds)
    \/ Env(BgLoadFails)
    \/ \E l \in mapLoads : \E f \in AtlasOverlayFiles : Env(MapLoadSucceeds(l, f))
    \/ \E l \in mapLoads : Env(MapLoadFails(l))

NextVariant == VariantSteps \/ SliderSteps

SpecVariant == ViewerInit /\ [][NextVariant]_vars

----------------------------------------------------------------------------
(* The header checks of loadNifti on their own: a header is chosen and the  *)
(* volume's dims and spacings are taken from it.                            *)

\* header.dims[k]: small non-negative integers, on which  | 0  changes nothing
HeaderDimValues == {0, 1, 2}

\* header.pixDims[k]: absent (Null), 0, -2 or 2
HeaderPixDimValues == {Null, <<0, 1>>, <<-2, 1>>, <<2, 1>>}

\* Math.abs(header.pixDims?.[k] ?? 1)
HeaderSpacing(p) == IF p = Null THEN <<1, 1>> ELSE <<Abs(p[1]), p[2]>>

\* the end of loadNifti: Null when it throws 'invalid dims', else the dims and
\* spacings of the volume it returns
loadNiftiHeader(h) ==
    IF h.dims[1] = 0 \/ h.dims[2] = 0 \/ h.dims[3] = 0
    THEN Null
    ELSE [dims |-> h.dims,
          voxelMM |-> <<HeaderSpacing(h.pixDims[1]), HeaderSpacing(h.pixDims[2]),
                        HeaderSpacing(h.pixDims[3])>>]

InitHeader ==
    /\ InitViewer /\ nInputs = 0
    /\ \E d1, d2, d3 \in HeaderDimValues : \E p1, p2, p3 \in HeaderPixDimValues :
         probe = [kind |-> "header", stage |-> "read",
                  header |-> [dims |-> <<d1, d2, d3>>, pixDims |-> <<p1, p2, p3>>],
                  vol |-> Null]

LoadHeader ==
    /\ probe.stage = "read"
    /\ probe' = [probe EXCEPT !.stage = "loaded", !.vol = loadNiftiHeader(probe.header)]
    /\ UNCHANGED <<vvars, nInputs, pvars>>

NextHeader == LoadHeader

SpecHeader == InitHeader /\ [][NextHeader]_vars

----------------------------------------------------------------------------
(* The cursor on its own: a background is loaded, and the user moves the    *)
(* sliders, clicks on the canvases and edits the coordinate fields; probe   *)
(* keeps the last of these inputs.                                          *)

\* the grid of the background
CursorGrid == <<3, 2, 2>>

InitCursor ==
    /\ nInputs = 0 /\ probe = Null /\ PanelsInit
    /\ Is(Loaded(CursorGrid, 1, 1, 1))

\* a click on a canvas, kept in probe with its ordinal
LoggedClick(axis, area, px, py) ==
    /\ NoEdit
    /\ nInputs < MaxInputs
    /\ onCanvasClick(axis, area[1], area[2], px, py)
    /\ nInputs' = nInputs + 1
    /\ probe' = [kind |-> "click", axis |-> axis, availW |-> area[1], rectH |-> area[2],
                 px |-> px, py |-> py, n |-> nInputs']
    /\ UNCHANGED pvars

NextCursor ==
    \/ TextSteps
    \/ \E axis \in Axes : \E area \in ClickAreas :
         \E px \in 0..area[1] : \E py \in 0..area[2] :
           LoggedClick(axis, area, <<px, 1>>, <<py, 1>>)

SpecCursor == InitCursor /\ [][NextCursor]_vars

----------------------------------------------------------------------------
(* Studies: the list of studies of the current query, with pages and       *)
(* favourites.  A study is named by its rank in the list's order, which is *)
(* fixed by the study itself (year descending, then title).                *)

pageSize == 20

StudyQueries == {"", "big", "small"}

\* the studies the server returns for a query: one more than a page, or two
StudyResults(q) == IF q = "big" THEN 1..(pageSize + 1) ELSE 1..2

\* the favourites found in localStorage at mount: none, or every study
StoredFavs == {{}, 1..(pageSize + 1)}

filteredSorted == IF showFavOnly THEN rows \cap studyFavs ELSE rows

totalPages == Max2(1, Ceil(Cardinality(filteredSorted), pageSize))

\* the 0-based position of study r in the filtered list
Position(r) == Cardinality({x \in filteredSorted : x < r})

pageRows ==
    {r \in filteredSorted :
        Position(r) >= (page - 1) * pageSize /\ Position(r) < page * pageSize}

\* the list and the page buttons are rendered
ListShown == studiesQuery # "" /\ ~loading /\ err = ""

\* the query prop changes: the page reset effect, the cleanup of the running
\* fetch effect, and the start of the new one
ChangeStudiesQuery(q) ==
    /\ q \in StudyQueries /\ q # studiesQuery
    /\ q = "" \/ nFetches < MaxLoads
    /\ studiesQuery' = q
    /\ page' = 1
    /\ IF q = ""
         THEN /\ fetches' = {[f EXCEPT !.alive = FALSE] : f \in fetches}
              /\ UNCHANGED <<loading, err, nFetches>>
         ELSE /\ fetches' = {[f EXCEPT !.alive = FALSE] : f \in fetches}
                               \cup {[id |-> nFetches + 1, query |-> q, alive |-> TRUE]}
              /\ nFetches' = nFetches + 1
              /\ loading' = TRUE
              /\ err' = ""
    /\ UNCHANGED <<rows, studyFavs, showFavOnly>>

\* the response to f is logged
Responded(f, ok) ==
    /\ probe' = [kind |-> "response", fetch |-> f, ok |-> ok]
    /\ UNCHANGED <<vvars, nInputs, avars>>

FetchSucceeds_NoAliveCheck(f) ==
    /\ f \in fetches
    /\ fetches' = fetches \ {f}
    /\ rows' = StudyResults(f.query)
    /\ loading' = FALSE
    /\ UNCHANGED <<studiesQuery, err, page, studyFavs, showFavOnly, nFetches>>

\* the server answers f with its list
FetchSucceeds(f) ==
    /\ f \in fetches
    /\ fetches' = fetches \ {f}
    /\ IF f.alive
         THEN rows' = StudyResults(f.query) /\ loading' = FALSE
         ELSE UNCHANGED <<rows, loading>>
    /\ UNCHANGED <<studiesQuery, err, page, studyFavs, showFavOnly, nFetches>>

\* the request f fails: an HTTP error, a network error, or the abort of the
\* cleanup
FetchFails(f) ==
    /\ f \in fetches
    /\ fetches' = fetches \ {f}
    /\ IF f.alive
         THEN err' = "Unable to fetch studies" /\ rows' = {} /\ loading' = FALSE
         ELSE UNCHANGED <<rows, loading, err>>
    /\ UNCHANGED <<studiesQuery, page, studyFavs, showFavOnly, nFetches>>

\* a page button sets the page to p
SetPage(p) ==
    /\ ListShown
    /\ page' = p
    /\ UNCHANGED <<studiesQuery, rows, loading, err, studyFavs, showFavOnly, fetches,
                   nFetches>>

FirstPage == page > 1 /\ SetPage(1)
PreviousPage == page > 1 /\ SetPage(Max2(1, page - 1))
NextPage == page < totalPages /\ SetPage(Min2(totalPages, page + 1))
LastPage == page < totalPages /\ SetPage(totalPages)

\* the favourites button
ToggleShowFavOnly ==
    /\ showFavOnly' = ~showFavOnly
    /\ page' = 1
    /\ UNCHANGED <<studiesQuery, rows, loading, err, studyFavs, fetches, nFetches>>

\* the rows of the page whose star is pressed: the first and the last
StarRows ==
    LET shown == pageRows
    IN  {r \in shown : \A x \in shown : x >= r} \cup
        {r \in shown : \A x \in shown : x <= r}

\* the star of the row r of the page
toggleStudyFav(r) ==
    /\ ListShown
    /\ r \in pageRows
    /\ studyFavs' = IF r \in studyFavs THEN studyFavs \ {r} ELSE studyFavs \cup {r}
    /\ UNCHANGED <<studiesQuery, rows, loading, err, page, showFavOnly, fetches,
                   nFetches>>

\* a step of the list that is not a response
Listed(A) == A /\ UNCHANGED <<vvars, nInputs, probe, avars>>

\* a star is pressed: a counted input
Starred(A) ==
    /\ nInputs < MaxInputs
    /\ A
    /\ nInputs' = nInputs + 1
    /\ UNCHANGED <<vvars, probe, avars>>

InitStudies ==
    /\ Is(InitRecord) /\ nInputs = 0 /\ probe = Null
    /\ BuilderMounted(<<>>) /\ ShellMounted
    /\ \E favs \in StoredFavs : StudiesMounted(favs)

PageSteps ==
    \/ Listed(FirstPage)
    \/ Listed(PreviousPage)
    \/ Listed(NextPage)
    \/ Listed(LastPage)

NextStudies ==
    \/ \E q \in StudyQueries : Listed(ChangeStudiesQuery(q))
    \/ \E f \in fetches : FetchSucceeds(f) /\ Responded(f, TRUE)
    \/ \E f \in fetches : FetchFails(f) /\ Responded(f, FALSE)
    \/ PageSteps
    \/ Listed(ToggleShowFavOnly)
    \/ \E r \in StarRows : Starred(toggleStudyFav(r))

SpecStudies == InitStudies /\ [][NextStudies]_vars

----------------------------------------------------------------------------
(* QueryBuilder: the search history.  A text is a sequence of characters,  *)
(* each a number; Space is the whitespace character.                       *)

Space == 0

HistoryCap == 15

RECURSIVE trimStart(_)
trimStart(t) ==
    IF t = <<>> THEN t
    ELSE IF Head(t) = Space THEN trimStart(Tail(t)) ELSE t

RECURSIVE trimEnd(_)
trimEnd(t) ==
    IF t = <<>> THEN t
    ELSE IF t[Len(t)] = Space THEN trimEnd(SubSeq(t, 1, Len(t) - 1)) ELSE t

\* String.prototype.trim
trim(t) == trimEnd(trimStart(t))

\* arr.filter(h => h !== v)
FilterOut(arr, v) == SelectSeq(arr, LAMBDA h : h # v)

\* arr.slice(0, n)
Slice0(arr, n) == SubSeq(arr, 1, Min2(n, Len(arr)))

\* the one-character queries 1, 2, ..., n, as the application stored them
Stored(n) == [i \in 1..n |-> <<i>>]

\* the history found in localStorage at mount: none, one short of the cap,
\* or full
StoredHistories == {<<>>, Stored(HistoryCap - 1), Stored(HistoryCap)}

\* the texts of the query input when Enter is pressed: empty, whitespace,
\* a query of the history (bare and padded), a new query padded with
\* whitespace, and a new query with a space inside
HistoryInputs ==
    {<<>>, <<Space>>, <<Space, Space>>, <<1>>, <<Space, HistoryCap>>,
     <<Space, HistoryCap + 1, Space>>, <<HistoryCap + 1, Space, HistoryCap + 2>>}

saveToHistory_NoDedupe(val) ==
    LET v == trim(val)
    IN  IF v = <<>> THEN UNCHANGED history
        ELSE history' = Slice0(<<v>> \o history, HistoryCap)

saveToHistory(val) ==
    LET v == trim(val)
    IN  IF v = <<>> THEN UNCHANGED history
        ELSE history' = Slice0(<<v>> \o FilterOut(history, v), HistoryCap)

\* the Clear button, rendered while the history is not empty
clearHistory == history # <<>> /\ history' = <<>>

\* Enter in the query input: a counted, logged input
Saved(val) ==
    /\ nInputs < MaxInputs
    /\ nInputs' = nInputs + 1
    /\ probe' = [kind |-> "save", val |-> val, n |-> nInputs']
    /\ UNCHANGED <<vvars, svars, isViewerFocused, isStudiesFocused>>

----------------------------------------------------------------------------
(* The shell's focus buttons *)

ToggleViewerFocus_KeepsOther ==
    /\ isViewerFocused' = ~isViewerFocused
    /\ UNCHANGED isStudiesFocused

\* the viewer's focus button
ToggleViewerFocus ==
    /\ isViewerFocused' = ~isViewerFocused
    /\ isStudiesFocused' = IF ~isViewerFocused THEN FALSE ELSE isStudiesFocused

\* the studies' focus button
ToggleStudiesFocus ==
    /\ isStudiesFocused' = ~isStudiesFocused
    /\ isViewerFocused' = IF ~isStudiesFocused THEN FALSE ELSE isViewerFocused

\* a focus button is pressed: the panel and the flags before it are logged
Pressed(panel) ==
    /\ probe' = [kind |-> "focus", panel |-> panel,
                 before |-> <<isViewerFocused, isStudiesFocused>>]
    /\ UNCHANGED <<vvars, svars, nInputs, history>>

InitPanels ==
    /\ Is(InitRecord) /\ nInputs = 0 /\ probe = Null
    /\ StudiesMounted({}) /\ ShellMounted
    /\ \E stored \in StoredHistories : BuilderMounted(stored)

NextPanels ==
    \/ \E val \in HistoryInputs : saveToHistory(val) /\ Saved(val)
    \/ clearHistory /\ UNCHANGED <<vvars, svars, nInputs, probe, isViewerFocused,
                                   isStudiesFocused>>
    \/ ToggleViewerFocus /\ Pressed("viewer")
    \/ ToggleStudiesFocus /\ Pressed("studies")

SpecPanels == InitPanels /\ [][NextPanels]_vars

----------------------------------------------------------------------------
(* Claims *)

\* C1: whenever the canvas dims are non-zero, each cursor index ix, iy, iz is
\* in [0, dim-1] of its axis, also when a volume with other dims replaces the
\* one that defined dims while a slider commit is pending.
C1_CursorInBounds ==
    dims[1] # 0 =>
        /\ ix \in 0..(dims[1] - 1)
        /\ iy \in 0..(dims[2] - 1)
        /\ iz \in 0..(dims[3] - 1)

\* a load of the overlay slot, or the background load, completes after it was
\* superseded or the view was torn down
StaleCompletion ==
    \/ \E l \in mapLoads : ~l.alive /\ mapLoads' = mapLoads \ {l}
    \/ bgLoad # Null /\ ~bgLoad.alive /\ bgLoad' = Null

\* C2: the completion of a superseded load (the request changed, was cleared,
\* or the view was torn down) writes nothing: slots, canvas dims, cursor, error
\* messages and loading flags stay as they are; and only the most recently
\* started load, while current, populates the overlay slot.
C2_StaleLoadWritesNothing ==
    /\ [][StaleCompletion =>
            UNCHANGED <<mapRef, bgRef, dims, dimsSrc, ix, iy, iz, cx, cy, cz,
                        errMap, errBG, loadingMap, loadingBG, sliderPos>>]_vars
    /\ [][(mapRef' # mapRef /\ mapRef' # Null) =>
            /\ mounted /\ mapUrl # ""
            /\ mapRef'.id = nLoads
            /\ [id |-> nLoads, alive |-> TRUE] \in mapLoads]_vars

\* a superseded overlay load has completed: nothing is in flight and the flag its
\* start raised is still up
C2_Witness ==
    /\ mounted /\ nLoads > 0 /\ mapLoads = {} /\ loadingMap
    /\ mapRef = Null /\ errMap = ""

\* C3: a failed load changes only its own slot: the slot becomes null and its
\* error message is set; the other slot's volume and message, the cursor and
\* the canvas dims are unchanged, and no load is started.
C3_FailureConfined ==
    /\ [][(errMap' # errMap /\ errMap' # "") =>
            /\ mapRef' = Null
            /\ UNCHANGED <<bgRef, errBG, ix, iy, iz, dims, dimsSrc, bgLoad, nLoads>>
            /\ mapLoads' \subseteq mapLoads]_vars
    /\ [][(errBG' # errBG /\ errBG' # "") =>
            /\ bgRef' = Null /\ bgLoad' = Null
            /\ UNCHANGED <<mapRef, errMap, ix, iy, iz, dims, dimsSrc, mapLoads, nLoads>>]_vars

\* an overlay load has failed beside a healthy background, the cursor off centre
C3_Witness ==
    /\ errMap # "" /\ mapRef = Null /\ bgRef # Null /\ dims = bgRef.dims
    /\ <<ix, iy, iz>> # <<1, 1, 0>>

\* the slices one execution of the redraw callbacks draws: the guard of each
\* drawSlice call is  index >= 0 && index < n  on the closure's values
DrawnSlices(d) ==
    {ai \in {<<"z", d.c.iz>>, <<"y", d.c.iy>>, <<"x", d.c.ix>>} :
        ai[2] >= 0 /\ ai[2] < AxisDim(ai[1], d.c.dims)}

\* C4: when the overlay's dims differ from the background's dims, every pixel
\* drawSlice composes is the pixel composed with the overlay absent, for every
\* plane and every threshold and style setting.
C4_MismatchIsolated ==
    (drawn # Null /\ drawn.bg # Null /\ drawn.map # Null
       /\ drawn.map.dims # drawn.bg.dims) =>
        \A ai \in DrawnSlices(drawn) :
            drawSlice(ai[1], ai[2], drawn.c, drawn.bg, drawn.map)
              = drawSlice(ai[1], ai[2], drawn.c, drawn.bg, Null)

\* C5: for each axis and every index i in [0, n-1],
\* coord2idx(idx2coord(i, n, axis), n, axis) = i, on the atlas grid and on every
\* other grid, for odd and even n.
C5_RoundTrip ==
    (probe # Null /\ probe.kind = "coord" /\ probe.stage = "back") =>
        probe.back = <<probe.i>>

\* the round trip has run on a generic grid of even size with spacing 1.5, at an
\* index that is not the centre
C5_Witness ==
    /\ probe # Null /\ probe.kind = "coord" /\ probe.stage = "back"
    /\ probe.n = 2 /\ probe.i = 0 /\ probe.axis = "x"
    /\ probe.grid.voxelMM[1] = <<3, 2>> /\ probe.back = <<0>>

\* equality of rationals
RatEq(a, b) == a[1] * b[2] = b[1] * a[2]

\* the grid is the atlas grid: dims (91,109,91) and every spacing within 1e-3 of 2
CanonicalGrid(g) ==
    /\ g.dims = <<91, 109, 91>>
    /\ \A k \in 1..3 :
         LET d == g.voxelMM[k][1] - 2 * g.voxelMM[k][2]
         IN  -g.voxelMM[k][2] < 1000 * d /\ 1000 * d < g.voxelMM[k][2]

C7_ThresholdGate ==
    (probe # Null /\ probe.kind = "gate" /\ probe.done) =>
        LET effective == IF probe.useAbs THEN Abs(probe.raw) ELSE probe.raw
            passes == /\ IF probe.thr = Null THEN effective > 0
                         ELSE effective >= probe.thr[1]
                      /\ ~(probe.posOnly /\ probe.raw <= 0)
            blended == probe.out # <<<<0, 0, 0, 255>>>>
        IN  /\ blended <=> passes
            /\ (probe.raw = 5 /\ probe.thr = <<3>> /\ probe.posOnly) => blended
            /\ (probe.raw = -5 /\ probe.posOnly) => ~blended

\* a voxel exactly at the threshold has been blended at half alpha
C7_Witness ==
    /\ probe # Null /\ probe.kind = "gate" /\ probe.done
    /\ probe.raw = 3 /\ probe.thr = <<3>> /\ probe.posOnly /\ ~probe.useAbs
    /\ probe.out = <<<<127, 0, 0, 255>>>>

\* the ascending-sorted strided sample of the overlay data
SortedSample(arr) == SortAsc(Sample(arr, Ceil(Len(arr), PctlSampleCap)))

\* C8: in Percentile mode the threshold used for compositing is the element at
\* index floor(p/100 * (sampleCount-1)) of the sorted sample, for every
\* configured percentile p in [0,100]: p = 100 gives the maximum of the sample
\* and p = 0 its minimum.
C8_PercentileIndex ==
    (thrMode = "pctl" /\ mapRef # Null /\ seenMap = mapRef
       /\ typedPctl >= 0 /\ typedPctl <= 1000) =>
        LET samp == SortedSample(mapRef.data)
        IN  /\ mapThreshold = <<samp[Floor(typedPctl * (Len(samp) - 1), 1000) + 1]>>
            /\ typedPctl = 1000 => mapThreshold = <<SeqMax(samp)>>
            /\ typedPctl = 0 => mapThreshold = <<SeqMin(samp)>>

\* C9: at every execution of drawSlice the threshold it applies is the one
\* computed from the overlay now in the slot and the current mode, value and
\* percentile, and is null whenever the slot is empty.
C9_ThresholdCurrent ==
    drawn # Null =>
        drawn.c.thr = ComputeThreshold(drawn.map, drawn.cfg.thrMode,
                                       drawn.cfg.thrValue, drawn.cfg.pctl)

\* the gray level of the background voxel (x, y, z) of RampVolume(d)
RampGray(d, x, y, z) ==
    LET hi == 10 * (Voxels(d) - 1)
        v == 10 * (x + y * d[1] + z * d[1] * d[2])
    IN  IF hi = 0 THEN 0 ELSE (v * 255) \div hi

\* the plane with one pure-red pixel at column nx-1-x0, row ny-1-y0, every other
\* pixel the gray of the background voxel it displays
OneRedPixel(p) ==
    [k \in 1..(p.dims[1] * p.dims[2]) |->
        LET col == (k - 1) % p.dims[1]
            row == (k - 1) \div p.dims[1]
            g == RampGray(p.dims, p.dims[1] - 1 - col, p.dims[2] - 1 - row, p.z0)
        IN  IF col = p.dims[1] - 1 - p.x0 /\ row = p.dims[2] - 1 - p.y0
            THEN <<255, 0, 0, 255>>
            ELSE <<g, g, g, 255>>]

\* C10 as stated: the overlay's one voxel is above the Value threshold, posOnly,
\* not useAbs, alpha 1: the axial plane at z0 has exactly one pure-red pixel, at
\* column nx-1-x0 and row ny-1-y0, every other pixel the background gray.
C10_AsStated ==
    (probe # Null /\ probe.kind = "plane" /\ probe.done /\ probe.v > probe.t) =>
        probe.out = OneRedPixel(probe)

\* C10: with a background and an overlay of identical dims, the overlay's one
\* non-zero voxel positive and above the Value threshold, posOnly, not useAbs,
\* alpha 1: the axial plane at z0 has exactly one pixel (255,0,0,255), at column
\* nx-1-x0 and row ny-1-y0, and every other pixel is the background gray with
\* alpha 255.
C10_OneRedPixel ==
    (probe # Null /\ probe.kind = "plane" /\ probe.done
       /\ probe.v > 0 /\ probe.v > probe.t) =>
        probe.out = OneRedPixel(probe)

\* a plane of three columns and two rows composed with the voxel in a corner
C10_Witness ==
    /\ probe # Null /\ probe.kind = "plane" /\ probe.done
    /\ probe.dims = <<3, 2, 1>> /\ probe.x0 = 0 /\ probe.y0 = 0
    /\ probe.v = 5 /\ probe.t = 3
    /\ probe.out[6] = <<255, 0, 0, 255>> /\ probe.out[1] = <<255, 255, 255, 255>>

\* the letterboxed rectangle in which the plane of an axis is drawn on a display area
DrawnRect(axis, d, availW, rectH) ==
    LET w == PlaneW(axis, d)
        h == PlaneH(axis, d)
        availH == IF rectH <= 0 THEN Max2(1, Round(availW * h, w)) ELSE rectH
        \* scale = min(availW / w, availH / h), as a rational
        scale == IF availW * h <= availH * w THEN <<availW, w>> ELSE <<availH, h>>
        drawW == Max2(1, Round(w * scale[1], scale[2]))
        drawH == Max2(1, Round(h * scale[1], scale[2]))
    IN  [w |-> w, h |-> h, drawW |-> drawW, drawH |-> drawH,
         offsetX |-> Floor(availW - drawW, 2), offsetY |-> Floor(availH - drawH, 2)]

\* the click c, on a canvas showing grid d, is inside the drawn rectangle (edges
\* included)
ClickInside(c, d) ==
    LET r == DrawnRect(c.axis, d, c.availW, c.rectH)
    IN  /\ r.offsetX * c.px[2] <= c.px[1] /\ c.px[1] <= (r.offsetX + r.drawW) * c.px[2]
        /\ r.offsetY * c.py[2] <= c.py[1] /\ c.py[1] <= (r.offsetY + r.drawH) * c.py[2]

\* this step is a click
ClickStep == probe = Null /\ probe' # Null /\ probe'.kind = "click"

\* C11: a canvas click whose screen point lies outside the drawn letterboxed
\* rectangle [offsetX, offsetX+drawW] x [offsetY, offsetY+drawH] changes no
\* state: cursor indices, coordinate text buffers and slider previews stay.
C11_OutsideClickIgnored ==
    [][(ClickStep /\ ~ClickInside(probe', dims)) =>
          UNCHANGED <<ix, iy, iz, cx, cy, cz, sliderPos, dims>>]_vars

\* a click has landed in the letterbox zone left of the drawn rectangle
C11_Witness ==
    /\ probe # Null /\ probe.kind = "click" /\ ~ClickInside(probe, dims)
    /\ probe.axis = "z" /\ dims = <<3, 2, 2>> /\ probe.availW = 9 /\ probe.rectH = 1
    /\ probe.px = <<0, 2>>

\* C12: an accepted canvas click on a plane updates the two cursor indices that
\* plane varies over (axial: ix and iy; coronal: ix and iz; sagittal: iy and
\* iz) and leaves the third cursor index unchanged.
C12_ThirdIndexKept ==
    [][(ClickStep /\ ClickInside(probe', dims)) =>
          /\ probe'.axis = "z" => iz' = iz
          /\ probe'.axis = "y" => iy' = iy
          /\ probe'.axis = "x" => ix' = ix]_vars

\* an accepted click on the axial plane has moved ix and iy to a corner while iz
\* is not at the centre
C12_Witness ==
    /\ probe # Null /\ probe.kind = "click" /\ ClickInside(probe, dims)
    /\ probe.axis = "z" /\ dims = <<3, 2, 2>> /\ <<ix, iy, iz>> = <<0, 0, 0>>

\* C13: every click that onCanvasClick accepts, a point on the right edge
\* px = offsetX+drawW or the bottom edge py = offsetY+drawH included, leaves the
\* cursor indices within [0, dim-1]: none becomes -1 or the axis length.
C13_AcceptedClickInBounds ==
    (probe # Null /\ probe.kind = "click" /\ ClickInside(probe, dims)) =>
        /\ ix \in 0..(dims[1] - 1)
        /\ iy \in 0..(dims[2] - 1)
        /\ iz \in 0..(dims[3] - 1)

\* C14: for every plane, in-range cursor and display area, a click at the
\* screen pixel where drawSlice draws the crosshair (cx, screenY) resolves to
\* the current cursor indices: the cursor is unchanged.
C14_CrosshairClickKeepsCursor ==
    [][(ClickStep
          /\ LET xh == Crosshair(probe'.axis, Closure(S), probe'.availW, probe'.rectH)
             IN  /\ RatEq(probe'.px, <<xh[1], 1>>)
                 /\ RatEq(probe'.py, <<xh[2], 1>>))
        => UNCHANGED <<ix, iy, iz>>]_vars

\* C15: a click at the exact geometric centre of the drawn rectangle
\* (offsetX + drawW/2, offsetY + drawH/2) resolves to the same in-plane
\* indices, column floor(w/2) and row floor(h/2) of the image, for every
\* display area.
C15_CentreClick ==
    [][(ClickStep
          /\ LET r == DrawnRect(probe'.axis, dims, probe'.availW, probe'.rectH)
             IN  /\ RatEq(probe'.px, <<2 * r.offsetX + r.drawW, 2>>)
                 /\ RatEq(probe'.py, <<2 * r.offsetY + r.drawH, 2>>))
        => LET w == PlaneW(probe'.axis, dims)
               h == PlaneH(probe'.axis, dims)
               col == Floor(w, 2)
               row == h - 1 - Floor(h, 2)
           IN  /\ probe'.axis = "z" => <<ix', iy'>> = <<dims[1] - 1 - col, row>>
               /\ probe'.axis = "y" => <<ix', iz'>> = <<dims[1] - 1 - col, row>>
               /\ probe'.axis = "x" => <<iy', iz'>> = <<col, row>>]_vars

\* the cursor index of an axis
CursorIndex(axis) == IF axis = "x" THEN ix ELSE IF axis = "y" THEN iy ELSE iz

\* a load has completed or failed in this step
LoadCompletes ==
    \/ bgLoad # Null /\ bgLoad' = Null
    \/ Cardinality(mapLoads') < Cardinality(mapLoads)

\* C16: a slider input on an axis sets that axis's preview to the input value
\* and restarts that axis's timer with it, without changing the cursor index;
\* the cursor index of an axis changes (loads aside) only when that axis's
\* timer fires, and then takes the value of the last input, the one pending
\* commit of the axis.
C16_SliderDebounce ==
    [][\A axis \in Axes :
         /\ (debounceRefs'[axis] # Null /\ debounceRefs'[axis] # debounceRefs[axis]) =>
               /\ sliderPos'[axis] = debounceRefs'[axis][1]
               /\ CursorIndex(axis)' = CursorIndex(axis)
         /\ (CursorIndex(axis)' # CursorIndex(axis) /\ ~LoadCompletes) =>
               /\ debounceRefs[axis] # Null /\ debounceRefs'[axis] = Null
               /\ CursorIndex(axis)' = debounceRefs[axis][1]]_vars

\* after two slider inputs the preview of the X slider is ahead of the cursor
\* and its commit is pending
C16_Witness ==
    /\ mounted /\ nInputs = 2 /\ fwhm = FwhmDefault
    /\ debounceRefs.x = <<0>> /\ sliderPos.x = 0 /\ ix = 1
    /\ debounceRefs.y = Null /\ debounceRefs.z = Null

\* C17: once the viewer is unmounted no slider timer is pending and every load
\* still in flight is marked not alive, and no later step (a timer, a load
\* resolving or throwing) changes the cursor, the volumes, dims, the error
\* messages or the loading flags.
C17_TeardownCancels ==
    [][/\ ~mounted' =>
            /\ \A axis \in Axes : debounceRefs'[axis] = Null
            /\ bgLoad' # Null => ~bgLoad'.alive
            /\ \A l \in mapLoads' : ~l.alive
       /\ ~mounted =>
            UNCHANGED <<ix, iy, iz, cx, cy, cz, sliderPos, dims, dimsSrc, bgRef, mapRef,
                        errBG, errMap, loadingBG, loadingMap>>]_vars

\* the viewer was unmounted during a drag, with an overlay load in flight that
\* has resolved since
C17_Witness ==
    /\ ~mounted /\ nInputs >= 1 /\ dims[1] # 0 /\ sliderPos.x # ix
    /\ loadingMap /\ mapLoads = {} /\ mapRef = Null

\* this step commits a coordinate field
CommitStep == probe' # probe /\ probe'.kind = "commit"

\* text that is a number and nothing else
WellFormed(t) == Len(t) = 2

\* C18: committing a coordinate field whose text is empty, a lone '-',
\* non-numeric, or a number followed by non-numeric characters leaves the
\* cursor unchanged; only well-formed numeric text moves the cursor.
C18_MalformedTextIgnored ==
    [][(CommitStep /\ ~WellFormed(probe'.text)) => UNCHANGED <<ix, iy, iz>>]_vars

\* the millimetre texts the cursor maps to
ForwardTexts ==
    LET vm == getVoxelMM(bgRef, mapRef)
    IN  <<String(idx2coord(ix, dims[1], "x", dims, vm)),
          String(idx2coord(iy, dims[2], "y", dims, vm)),
          String(idx2coord(iz, dims[3], "z", dims, vm))>>

\* C19: while no coordinate field is being edited, the three coordinate texts
\* are idx2coord of the cursor indices: after every load completion, slider
\* commit and coordinate commit, a commit whose value maps to the index the
\* cursor already has included.
C19_TextsFollowCursor ==
    (mounted /\ dims[1] # 0 /\ NoEdit) => <<cx, cy, cz>> = ForwardTexts

\* a load has resolved and stored its volume in this step
LoadSucceeds ==
    /\ LoadCompletes
    /\ \/ bgRef' # bgRef /\ bgRef' # Null
       \/ mapRef' # mapRef /\ mapRef' # Null

\* C20: the transform variant idx2coord and coord2idx use, canonical atlas or
\* generic, changes only in a step in which a load resolves; clearing the query
\* or a failed overlay load does not switch it.
C20_VariantFixedByLoad ==
    [][Variant' # Variant => LoadSucceeds]_vars

\* C21: every volume loadNifti returns has three positive dims and three
\* positive spacings; a header with a zero dimension is rejected.
C21_AcceptedVolumeValid ==
    (probe # Null /\ probe.kind = "header" /\ probe.stage = "loaded") =>
        /\ (\E k \in 1..3 : probe.header.dims[k] = 0) => probe.vol = Null
        /\ probe.vol # Null =>
              \A k \in 1..3 : probe.vol.dims[k] > 0 /\ probe.vol.voxelMM[k][1] > 0

\* the slices a drawing with closure c paints, from the volumes bg and map
Painted(c, bg, map) ==
    {<<ai[1], ai[2], drawSlice(ai[1], ai[2], c, bg, map)>> : ai \in DrawnSlices([c |-> c])}

\* C22: the slices on the canvases are those of the current state: the last
\* execution of the drawing code used the cursor, dims, threshold and overlay
\* style of the latest render, so no frame, fallback timeout or resize callback
\* scheduled by an earlier render has painted over it.
C22_PaintIsCurrent ==
    (mounted /\ dims[1] # 0 /\ drawn # Null) =>
        /\ <<drawn.c.dims, drawn.c.ix, drawn.c.iy, drawn.c.iz>> = <<dims, ix, iy, iz>>
        /\ Painted(drawn.c, drawn.bg, drawn.map) = Painted(Closure(S), bgRef, mapRef)

\* C23: whenever the background slot holds a volume the canvas dims are the
\* background's dims, in whatever order the loads complete; the dims are taken
\* from the overlay only while the background slot is empty; and every step
\* that replaces the dims sets the cursor to the centre voxel, floor(n/2) on
\* each axis.
C23_DimsPreferBackground ==
    [][/\ bgRef' # Null => dims' = bgRef'.dims
       /\ dimsSrc' # dimsSrc =>
            /\ <<ix', iy', iz'>>
                 = <<Floor(dims'[1], 2), Floor(dims'[2], 2), Floor(dims'[3], 2)>>
            /\ bgRef' = Null => (bgRef = Null /\ mapRef' # Null /\ dims' = mapRef'.dims)]_vars

\* the overlay on another grid has loaded, and so has the background, which
\* gives the canvas its dims
C23_Witness ==
    /\ bgRef # Null /\ mapRef # Null /\ mapRef.dims = <<3, 1, 1>>
    /\ dims = <<2, 2, 1>> /\ <<ix, iy, iz>> = <<1, 1, 0>>

\* the timer of an axis fires in this step
TimerFires(axis) == debounceRefs[axis] # Null /\ debounceRefs'[axis] = Null

\* the last input set the index of the axis: an accepted click on a plane that
\* varies over it, or a committed number in its coordinate field
NewerValueApplied(axis) ==
    IF probe = Null THEN FALSE
    ELSE IF probe.kind = "click" THEN probe.axis # axis /\ ClickInside(probe, dims)
    ELSE IF probe.kind = "commit" THEN probe.axis = axis /\ parseFloat(probe.text) # Null
    ELSE FALSE

\* C24: a slider commit scheduled before a canvas click or a coordinate commit
\* on the same axis does not overwrite the value that later input set: when the
\* timer of an axis fires after such an input, the index of the axis stays.
C24_OlderCommitDropped ==
    [][\A axis \in Axes :
         (TimerFires(axis) /\ NewerValueApplied(axis)) =>
             CursorIndex(axis)' = CursorIndex(axis)]_vars

\* C25: the overlay loading flag is true only while a current overlay load,
\* one that no later query change has superseded, is in flight; clearing the
\* query while a load is in flight does not leave the flag true.
C25_LoadingFlagCurrent ==
    (mounted /\ loadingMap) => \E l \in mapLoads : l.alive

\* C26: when an overlay load completes, the first redraw that follows already
\* uses a Value-mode threshold within the new overlay's [min, max].
C26_ClampedBeforeRedraw ==
    \A l \in mapLoads : \A f \in OverlayFiles :
        (mounted /\ l.alive /\ thrMode = "value") =>
            LET n == FirstPass(S, MapLoaded(l, f))
            IN  /\ n.drawn # Null /\ n.drawn.map = n.mapRef
                /\ n.drawn.c.thr # Null
                /\ n.drawn.c.thr[1] >= n.mapRef.min /\ n.drawn.c.thr[1] <= n.mapRef.max

\* C27: a response, success or failure, to a studies fetch for an earlier
\* query changes none of rows, err and loading once the query has changed,
\* and whenever the list is shown (a query is set, loading is over, no error)
\* its rows are those of the current query.
C27_StaleResponseIgnored ==
    [][ /\ \A f \in fetches :
             (~f.alive /\ fetches' = fetches \ {f} /\ nFetches' = nFetches
              /\ studiesQuery' = studiesQuery)
                => (rows' = rows /\ err' = err /\ loading' = loading)
        /\ (studiesQuery' # "" /\ ~loading' /\ err' = "")
             => rows' = StudyResults(studiesQuery') ]_vars

\* the answer to an earlier query's fetch has arrived while the list shows
\* the rows of the current, different query
C27_Witness ==
    /\ IF probe = Null THEN FALSE
       ELSE probe.kind = "response" /\ ~probe.fetch.alive
            /\ probe.fetch.query # studiesQuery
    /\ studiesQuery # "" /\ ~loading /\ err = ""
    /\ rows = StudyResults(studiesQuery)

\* C28: page is always within [1, totalPages], whatever the sequence of query
\* changes, page buttons, favourites-only toggles and favourite toggles.
C28_PageInRange == page >= 1 /\ page <= totalPages

\* C29: after every saveToHistory and clearHistory the history has no
\* duplicate and at most 15 entries; a save of a non-blank query leaves that
\* query, without its surrounding whitespace, first; a save of an empty or
\* whitespace-only query changes nothing.
C29_HistoryShape ==
    [][ /\ \A i, j \in 1..Len(history') : history'[i] = history'[j] => i = j
        /\ Len(history') <= HistoryCap
        /\ nInputs' # nInputs =>
             IF \A k \in 1..Len(probe'.val) : probe'.val[k] = Space
               THEN history' = history
               ELSE history' # <<>> /\ history'[1] = trim(probe'.val) ]_vars

\* a query already in a full history was saved again, padded with
\* whitespace: it is first, once, and the history is still full
C29_Witness ==
    /\ IF probe = Null THEN FALSE
       ELSE probe.kind = "save" /\ probe.val = <<Space, HistoryCap>>
    /\ Len(history) = HistoryCap
    /\ history[1] = <<HistoryCap>>
    /\ history[HistoryCap] = <<HistoryCap - 1>>

\* C30: the viewer-focus and studies-focus flags are never both true;
\* turning one on turns the other off, turning one off leaves the other
\* unchanged.
C30_FocusExclusive ==
    [][ LET button == IF probe' = Null \/ probe' = probe THEN "none"
                      ELSE IF probe'.kind = "focus" THEN probe'.panel ELSE "none"
        IN  /\ ~(isViewerFocused' /\ isStudiesFocused')
            /\ (button = "viewer" /\ ~isViewerFocused)
                 => (isViewerFocused' /\ ~isStudiesFocused')
            /\ (button = "viewer" /\ isViewerFocused)
                 => (~isViewerFocused' /\ isStudiesFocused' = isStudiesFocused)
            /\ (button = "studies" /\ ~isStudiesFocused)
                 => (isStudiesFocused' /\ ~isViewerFocused')
            /\ (button = "studies" /\ isStudiesFocused)
                 => (~isStudiesFocused' /\ isViewerFocused' = isViewerFocused) ]_vars

\* the viewer's focus button was pressed while the studies were focused:
\* the viewer is focused and the studies no longer are
C30_Witness ==
    /\ IF probe = Null THEN FALSE
       ELSE probe.kind = "focus" /\ probe.panel = "viewer"
            /\ probe.before = <<FALSE, TRUE>>
    /\ isViewerFocused /\ ~isStudiesFocused

============================================================================
